---------------------------- MODULE Spec2Model ----------------------------
(***************************************************************************)
(* A model of the unified file scanner and its cache                       *)
(* (package scanner, src/internal/git/repository.go lines 593-1361).       *)
(*                                                                         *)
(* Strings are sequences of one-character strings, file contents are       *)
(* sequences of bytes (0 = NUL, 10 = '\n', 97 = 'a').  Sizes are scaled:   *)
(* the byte thresholds of the source (512, 64 KiB, 1 MiB) are replaced by  *)
(* small numbers that keep their order, so that files below, at and above  *)
(* each threshold exist among the modelled contents.                       *)
(***************************************************************************)
EXTENDS Integers, Sequences, FiniteSets, TLC

VARIABLES
    tree,        \* the directory tree, in the lexical pre-order of filepath.Walk
    gitIgnores,  \* FileScanner.gitIgnores, loaded once by NewFileScanner
    cacheFiles,  \* FileScanner.cache.files: the identity of the live map
    mapObj,      \* the map objects made so far: identity -> (relative path -> record address)
    heap,        \* the UnifiedFileInfo records made so far: address -> record
    writer,      \* FileCache.mu: the holder of the write lock, or None
    readers,     \* FileCache.mu: the holders of the read lock
    stack,       \* per caller: the frames of the calls in progress, innermost first
    ret,         \* per caller: the value returned by the call that ended last
    pos,         \* per caller: the index in tree of the entry filepath.Walk visits next
    werr,        \* per caller: the walk function has returned a non-nil, non-SkipDir error
    nScans,      \* the number of ScanAllFiles calls that have taken the lock
    hist,        \* history: one record per ScanAllFiles call that returned
    sawErr,      \* history, per caller: a walk error occurred inside the current top-level call
    lcContent,   \* line counter: the bytes of the file being streamed
    lcOff,       \* line counter: the number of bytes read so far
    lcCount,     \* line counter: streamingLineCount's count
    lcLast,      \* line counter: streamingLineCount's lastCharWasNewline
    lcPc,        \* line counter: "idle", "read", "done" or "err"
    secCfg,      \* SecurityAnalyzer.config: SecretPatterns, SuspiciousFiles, AllowedSecrets
    compiledPatterns, \* SecurityAnalyzer.compiledPatterns
    out,         \* per caller: what its last Analyze or SearchInFiles call returned
    sr,          \* file search: the content, the pattern and the results of the two searches
    cli,         \* check command: the flags, the report's issues and the exit code
    ig,          \* the last direct call of shouldIgnore: the path and the result
    call,        \* the last direct call of a function without state: its name, argument and result
    headRev,     \* the git repository: the revision HEAD points to
    mu,          \* Cache.mu of the Repository: the holder of the lock, or None
    cacheValid,  \* Cache.cacheValid
    batchedData, \* Cache.batchedData: the address of a BatchedGitData, or 0 for nil
    gitData,     \* the BatchedGitData objects by address: the revision each was read at
    gitPc,       \* per caller of the Repository: the operation in progress and its position
    gitRet,      \* per caller of the Repository: what its last call returned
    gitCalls,    \* the number of calls of the Repository that have begun
    gitFills,    \* history: the number of times batchedData was stored since the last invalidation
    gitTouched   \* history, per caller: <<the call found the cache valid, the call read the repository>>

scanVars == <<tree, gitIgnores, cacheFiles, mapObj, heap, writer, readers,
              stack, ret, pos, werr, nScans, hist, sawErr>>
lcVars == <<lcContent, lcOff, lcCount, lcLast, lcPc>>
anVars == <<secCfg, compiledPatterns, out>>
srVars == <<sr>>
cliVars == <<cli>>
igVars == <<ig>>
fnVars == <<call>>
gitVars == <<headRev, mu, cacheValid, batchedData, gitData, gitPc, gitRet,
             gitCalls, gitFills, gitTouched>>
vars == <<tree, gitIgnores, cacheFiles, mapObj, heap, writer, readers,
          stack, ret, pos, werr, nScans, hist, sawErr,
          lcContent, lcOff, lcCount, lcLast, lcPc,
          secCfg, compiledPatterns, out, sr, cli, ig, call,
          headRev, mu, cacheValid, batchedData, gitData, gitPc, gitRet,
          gitCalls, gitFills, gitTouched>>

-----------------------------------------------------------------------------
(* Bounds of the model. *)

\* The number of ScanAllFiles calls in one behaviour.
MaxScans == 2
\* The longest byte sequence given to the line counters on their own.
MaxLen == 4

\* The number of modifications callers make to records and maps of the cache.
MaxCallerWrites == 2

\* The number of lines of a content given to the two file searches on their own.
MaxSearchLines == 2

\* The number of rules of a generated ignore list.
MaxRules == 2

\* The number of issues of a report given to the check command.
MaxIssues == 2

\* The number of issues of one severity in a report that is summarised.
MaxPerSeverity == 3

\* The number of calls of the Repository, and of commits made meanwhile.
MaxGitCalls == 4
MaxCommits == 1

(* Program constants, scaled (the value in the source is in the comment). *)

\* readFirstBytes: make([]byte, 512)
FirstBytesSize == 2
\* NewFileScanner: maxCacheSize: 1024 * 1024
maxCacheSize == 32
\* countLines, searchInFile: info.Size() > 1024*1024
streamThreshold == 32
\* searchInFileStreaming: scanner.Buffer(buf, 1024*1024)
streamMaxTokenSize == 32
\* streamingLineCount: const bufferSize = 64 * 1024
bufferSize == 4
\* bufio.NewScanner in countLines and searchInFile: bufio.MaxScanTokenSize = 64 * 1024
maxScanTokenSize == 24

NUL == 0
NL == 10
Bytes == {0, 10, 97}

\* The callers of the scanner: two goroutines.
Procs == {1, 2}

\* No holder of the write lock.
None == 0

-----------------------------------------------------------------------------
(* Sequences and strings. *)

Min(a, b) == IF a < b THEN a ELSE b

\* n times the byte b.
Rep(n, b) == [i \in 1..n |-> b]

Prefix(s, n) == SubSeq(s, 1, Min(n, Len(s)))

Drop(s, n) == SubSeq(s, n + 1, Len(s))

\* strings.HasPrefix
HasPrefix(s, p) == Len(p) <= Len(s) /\ SubSeq(s, 1, Len(p)) = p

\* strings.HasSuffix
HasSuffix(s, p) == Len(p) <= Len(s) /\ SubSeq(s, Len(s) - Len(p) + 1, Len(s)) = p

\* strings.TrimSuffix
TrimSuffix(s, p) == IF HasSuffix(s, p) THEN SubSeq(s, 1, Len(s) - Len(p)) ELSE s

\* strings.Contains
Contains(s, sub) ==
    \E i \in 1..(Len(s) - Len(sub) + 1) : SubSeq(s, i, i + Len(sub) - 1) = sub

\* strings.ToLower, on the letters the modelled names use
LowerChar(c) ==
    CASE c = "G" -> "g"
      [] c = "O" -> "o"
      [] c = "M" -> "m"
      [] c = "T" -> "t"
      [] c = "E" -> "e"
      [] c = "S" -> "s"
      [] OTHER -> c

ToLower(s) == [i \in 1..Len(s) |-> LowerChar(s[i])]

\* The index of the last "/" of a path, 0 when it has none.
LastSlash(s) ==
    IF \E i \in 1..Len(s) : s[i] = "/"
    THEN CHOOSE i \in 1..Len(s) : s[i] = "/" /\ \A j \in (i + 1)..Len(s) : s[j] # "/"
    ELSE 0

\* The path without its trailing separators.
RECURSIVE StripSlashes(_)
StripSlashes(s) ==
    IF s # <<>> /\ s[Len(s)] = "/" THEN StripSlashes(SubSeq(s, 1, Len(s) - 1)) ELSE s

\* filepath.Base: trailing separators are removed first
Base(s) ==
    LET t == StripSlashes(s)
    IN  IF s = <<>> THEN <<".">>
        ELSE IF t = <<>> THEN <<"/">>
        ELSE Drop(t, LastSlash(t))

\* filepath.Ext: the suffix of the last element that starts at its last dot
Ext(s) ==
    LET b == Drop(s, LastSlash(s))
    IN  IF \E i \in 1..Len(b) : b[i] = "."
        THEN LET i == CHOOSE k \in 1..Len(b) :
                          b[k] = "." /\ \A j \in (k + 1)..Len(b) : b[j] # "."
             IN  SubSeq(b, i, Len(b))
        ELSE <<>>

\* filepath.Match for patterns made of literals, '*' and '?': neither of the
\* two wildcards matches the separator.
RECURSIVE Match(_, _)
Match(pattern, name) ==
    IF pattern = <<>> THEN name = <<>>
    ELSE IF Head(pattern) = "*"
         THEN \/ Match(Tail(pattern), name)
              \/ name # <<>> /\ Head(name) # "/" /\ Match(pattern, Tail(name))
         ELSE /\ name # <<>>
              /\ IF Head(pattern) = "?" THEN Head(name) # "/"
                                        ELSE Head(pattern) = Head(name)
              /\ Match(Tail(pattern), Tail(name))

-----------------------------------------------------------------------------
(* Line counting. *)

\* The number of '\n' bytes of a sequence.
RECURSIVE Newlines(_)
Newlines(bytes) ==
    IF bytes = <<>> THEN 0
    ELSE (IF Head(bytes) = NL THEN 1 ELSE 0) + Newlines(Tail(bytes))

countLinesFromBytes(content) ==
    LET count == Newlines(content)
    IN  IF Len(content) > 0 /\ content[Len(content)] # NL THEN count + 1 ELSE count

\* One call of countLinesInBuffer: <<count, lastCharWasNewline>>.
RECURSIVE countLinesInBuffer(_, _, _)
countLinesInBuffer(buffer, currentCount, lastWasNewline) ==
    IF buffer = <<>> THEN <<currentCount, lastWasNewline>>
    ELSE IF Head(buffer) = NL
         THEN countLinesInBuffer(Tail(buffer), currentCount + 1, TRUE)
         ELSE countLinesInBuffer(Tail(buffer), currentCount, FALSE)

adjustFinalLineCount(count, lastCharWasNewline) ==
    IF ~lastCharWasNewline /\ count >= 0 THEN count + 1 ELSE count

\* streamingLineCount on a file whose every Read fills the buffer.
RECURSIVE streamLoop(_, _, _)
streamLoop(rest, count, last) ==
    IF rest = <<>> THEN adjustFinalLineCount(count, last)
    ELSE LET r == countLinesInBuffer(Prefix(rest, bufferSize), count, last)
         IN  streamLoop(Drop(rest, bufferSize), r[1], r[2])

streamingLineCount(bytes) == streamLoop(bytes, 0, FALSE)

\* The lengths of the lines bufio.ScanLines cuts a content into: one per '\n',
\* and one more for a non-empty unterminated tail.
RECURSIVE lineLengths(_, _)
lineLengths(bytes, cur) ==
    IF bytes = <<>> THEN (IF cur > 0 THEN <<cur>> ELSE <<>>)
    ELSE IF Head(bytes) = NL THEN <<cur>> \o lineLengths(Tail(bytes), 0)
         ELSE lineLengths(Tail(bytes), cur + 1)

\* The loop of countLines over bufio.Scanner: the scanner stops with
\* ErrTooLong at the first line that does not fit its buffer.
bufioLineCount(bytes) ==
    LET ls == lineLengths(bytes, 0)
    IN  IF \E i \in 1..Len(ls) : ls[i] >= maxScanTokenSize
        THEN [n |-> 0, err |-> TRUE]
        ELSE [n |-> Len(ls), err |-> FALSE]

-----------------------------------------------------------------------------
(* The streaming line counter on its own: every byte sequence up to MaxLen, *)
(* every way of cutting it into reads of 1..bufferSize bytes.               *)

AllContents == UNION {[1..n -> Bytes] : n \in 0..MaxLen}

lcIdle ==
    /\ lcContent = <<>>
    /\ lcOff = 0
    /\ lcCount = 0
    /\ lcLast = FALSE
    /\ lcPc = "idle"

\* countLinesStreaming: the file is opened, streamingLineCount starts.
StreamOpen ==
    /\ lcPc = "idle"
    /\ \E c \in AllContents : lcContent' = c
    /\ lcOff' = 0
    /\ lcCount' = 0
    /\ lcLast' = FALSE
    /\ lcPc' = "read"
    /\ UNCHANGED <<scanVars, anVars, srVars, cliVars, igVars, fnVars, gitVars>>

\* One iteration of the loop with n > 0: file.Read returns 1..bufferSize bytes.
StreamRead ==
    /\ lcPc = "read"
    /\ lcOff < Len(lcContent)
    /\ \E n \in 1..Min(bufferSize, Len(lcContent) - lcOff) :
          LET r == countLinesInBuffer(SubSeq(lcContent, lcOff + 1, lcOff + n),
                                      lcCount, lcLast)
          IN  /\ lcCount' = r[1]
              /\ lcLast' = r[2]
              /\ lcOff' = lcOff + n
    /\ UNCHANGED <<lcContent, lcPc>>
    /\ UNCHANGED <<scanVars, anVars, srVars, cliVars, igVars, fnVars, gitVars>>

\* file.Read returns 0 bytes at the end of the file: the loop breaks and the
\* count is adjusted.
StreamEOF ==
    /\ lcPc = "read"
    /\ lcOff = Len(lcContent)
    /\ lcCount' = adjustFinalLineCount(lcCount, lcLast)
    /\ lcPc' = "done"
    /\ UNCHANGED <<lcContent, lcOff, lcLast>>
    /\ UNCHANGED <<scanVars, anVars, srVars, cliVars, igVars, fnVars, gitVars>>

\* file.Read returns n > 0 and an error other than io.EOF: the count so far
\* is returned with the error.
StreamFail ==
    /\ lcPc = "read"
    /\ lcOff > 0
    /\ lcOff < Len(lcContent)
    /\ lcPc' = "err"
    /\ UNCHANGED <<lcContent, lcOff, lcCount, lcLast>>
    /\ UNCHANGED <<scanVars, anVars, srVars, cliVars, igVars, fnVars, gitVars>>

\* The caller takes the result; the next file can be counted.
StreamClose ==
    /\ lcPc \in {"done", "err"}
    /\ lcContent' = <<>>
    /\ lcOff' = 0
    /\ lcCount' = 0
    /\ lcLast' = FALSE
    /\ lcPc' = "idle"
    /\ UNCHANGED <<scanVars, anVars, srVars, cliVars, igVars, fnVars, gitVars>>

-----------------------------------------------------------------------------
(* The directory tree.  An entry: its path relative to the root, whether it *)
(* is a directory, its depth, its bytes, which of the scanner's accesses to  *)
(* it fails, and its modification time.  fail is "none", "open" (every      *)
(* os.Open fails), "firstRead" (the Read of readFirstBytes fails),          *)
(* "cacheOpen" (the os.Open of cacheFileContent fails), "cacheRead" (the    *)
(* io.ReadAll of cacheFileContent fails after good bytes) or "count" (the   *)
(* access of countLines fails).  The sequence is in filepath.Walk's order.  *)

Depth(rel) ==
    IF rel = <<>> THEN 0 ELSE 1 + Cardinality({i \in 1..Len(rel) : rel[i] = "/"})

D(rel) ==
    [bytes |-> <<>>, rel |-> rel, dir |-> TRUE, depth |-> Depth(rel),
     fail |-> "none", good |-> 0, mtime |-> 1]

\* A file one of the scanner's accesses fails on.
X(rel, bytes, fail, good) ==
    [bytes |-> bytes, rel |-> rel, dir |-> FALSE, depth |-> Depth(rel),
     fail |-> fail, good |-> good, mtime |-> 1]

F(rel, bytes) == X(rel, bytes, "none", Len(bytes))

\* A file os.Open fails on (permission denied, removed after Walk's lstat,
\* a symbolic link whose target is missing).
U(rel, bytes) == X(rel, bytes, "open", 0)

\* FileScanner.rootPath: "/r"
rootPath == <<"/", "r">>

\* main.go (10 lines, the last one unterminated), notes.txt (5 terminated
\* lines), photo.png (binary, larger than the cache threshold).
Tree1 ==
    << D(<<>>),
       F(<<"m","a","i","n",".","g","o">>, <<10,10,10,10,10,10,10,10,10,97>>),
       F(<<"n","o","t","e","s",".","t","x","t">>, <<10,10,10,10,10>>),
       F(<<"p","h","o","t","o",".","p","n","g">>, <<0>> \o Rep(maxCacheSize, 97)) >>

Rules1 == <<>>

\* A repository with a .gitignore of three rules and a metadata directory.
\* In walk order: a directory with a log file and a file whose only NUL
\* byte lies behind the inspected prefix, a file named as a rule with the
\* slash stripped, an ignored .env, .git, .gitignore, and what comes after.
Tree2 ==
    << D(<<>>),
       D(<<".","b">>),
       F(<<".","b","/","x",".","l","o","g">>, <<97>>),
       F(<<".","b","/","y",".","g","o">>, <<97,10,0>>),
       F(<<".","c">>, <<97>>),
       F(<<".","e","n","v">>, <<97,10>>),
       D(<<".","g","i","t">>),
       F(<<".","g","i","t","/","H","E","A","D">>, <<97,10>>),
       F(<<".","g","i","t","i","g","n","o","r","e">>, <<97,10>>),
       D(<<"d">>),
       F(<<"d","/","z",".","g","o">>, <<97,10>>),
       F(<<"e",".","g","o">>, <<97>>) >>

Rules2 == << <<".","e","n","v">>, <<"*",".","l","o","g">>, <<".","c","/">> >>

\* No .gitignore.  An upper-case extension, a text file above the cache
\* threshold, a directory holding a .gitkeep placeholder, a file whose
\* first Read fails, and a file that cannot be opened.
Tree3 ==
    << D(<<>>),
       F(<<"M",".","G","O">>, <<97,10,97,10>>),
       F(<<"b","i","g",".","t","x","t">>, Rep(maxCacheSize - 3, 97) \o <<10,97,10,97>>),
       D(<<"d">>),
       F(<<"d","/",".","g","i","t","k","e","e","p">>, <<>>),
       F(<<"d","/","z",".","g","o">>, <<97,10>>),
       X(<<"d","i","m">>, <<97,10>>, "firstRead", 0),
       U(<<"g","o","n","e">>, <<97,10>>) >>

Rules3 == <<>>

\* No .gitignore.  A two-line file whose io.ReadAll fails after the first
\* line, an empty file, a file of one line too long for bufio.Scanner whose
\* caching fails, and a two-line file whose caching fails.
Tree4 ==
    << D(<<>>),
       X(<<"c","u","t">>, <<97,10,97,10>>, "cacheRead", 2),
       F(<<"e",".","g","o">>, <<>>),
       X(<<"l","o","n","g">>, Rep(maxScanTokenSize, 97), "cacheOpen", 0),
       X(<<"t","w","o">>, <<97,10,97>>, "cacheOpen", 0) >>

Rules4 == <<>>

Scenarios ==
    { [tree |-> Tree1, rules |-> Rules1],
      [tree |-> Tree2, rules |-> Rules2],
      [tree |-> Tree3, rules |-> Rules3],
      [tree |-> Tree4, rules |-> Rules4] }

AbsPath(e) == IF e.rel = <<>> THEN rootPath ELSE rootPath \o <<"/">> \o e.rel

\* The entry of the tree at a relative path.
EntryAt(rel) == tree[CHOOSE j \in 1..Len(tree) : tree[j].rel = rel]

-----------------------------------------------------------------------------
(* The per-file functions of the scan. *)

shouldSkipPath(path) == Contains(path, <<".","g","i","t">>)

\* "SkipDir" for a directory and for a file alike, "nil" otherwise.
shouldSkipDirectory(e) ==
    IF shouldSkipPath(AbsPath(e))
    THEN (IF e.dir THEN "SkipDir" ELSE "SkipDir")
    ELSE "nil"

\* shouldIgnore without the tests of the base name.
shouldIgnore_FullPathOnly(path) ==
    \E i \in 1..Len(gitIgnores) :
        LET pattern == gitIgnores[i]
        IN  \/ /\ HasSuffix(pattern, <<"/">>)
               /\ Match(TrimSuffix(pattern, <<"/">>), path)
            \/ Match(pattern, path)

\* shouldIgnore without the branch for patterns ending in "/".
shouldIgnore_NoDirPatterns(path) ==
    \E i \in 1..Len(gitIgnores) :
        LET pattern == gitIgnores[i]
        IN  \/ Match(pattern, path)
            \/ Match(pattern, Base(path))

shouldIgnore(path) ==
    \E i \in 1..Len(gitIgnores) :
        LET pattern == gitIgnores[i]
        IN  \/ /\ HasSuffix(pattern, <<"/">>)
               /\ LET dirPattern == TrimSuffix(pattern, <<"/">>)
                  IN  \/ Match(dirPattern, path)
                      \/ Match(dirPattern, Base(path))
            \/ Match(pattern, path)
            \/ Match(pattern, Base(path))

\* The rules of TestFileScanner_ShouldIgnore, and further rules: one that
\* begins with "!", one in upper case, one with a directory, one with "?".
IgnoreRules ==
    << <<"*",".","l","o","g">>, <<"*",".","t","m","p">>, <<"b","u","i","l","d","/">>,
       <<"n","o","d","e","_","m","o","d","u","l","e","s","/">>, <<".","e","n","v">>,
       <<".","D","S","_","S","t","o","r","e">>,
       <<"!","a","p","p",".","l","o","g">>, <<"*",".","L","O","G">>,
       <<"s","r","c","/","*",".","p","y">>, <<"?","a","i","n",".","g","o">> >>

TestRules == SubSeq(IgnoreRules, 1, 6)

\* The rule lists a .gitignore is loaded into: the test's, and every list of
\* at most MaxRules of the rules.
IgnoreRuleLists ==
    {TestRules} \cup
    { SelectSeq(IgnoreRules, LAMBDA r : r \in S) :
        S \in {T \in SUBSET {IgnoreRules[i] : i \in 1..Len(IgnoreRules)} :
                  Cardinality(T) <= MaxRules} }

\* The paths of the test, and paths in other directories and in other case.
IgnorePaths ==
    { <<"a","p","p",".","l","o","g">>, <<"t","e","m","p",".","t","m","p">>,
      <<"b","u","i","l","d","/">>, <<"b","u","i","l","d">>, <<".","e","n","v">>,
      <<".","D","S","_","S","t","o","r","e">>, <<"m","a","i","n",".","g","o">>,
      <<"R","E","A","D","M","E",".","m","d">>, <<"s","r","c","/","u","t","i","l",".","p","y">>,
      <<"A","P","P",".","L","O","G">>, <<"s","r","c","/","a","p","p",".","l","o","g">>,
      <<"s","r","c","/","b","u","i","l","d">>, <<"b","u","i","l","d","/","o","u","t",".","j","s">>,
      <<"B","u","i","l","d">>, <<"!","a","p","p",".","l","o","g">>,
      <<"x","/",".","e","n","v">>, <<".","e","n","v",".","l","o","c","a","l">>,
      <<"s","r","c","/","m","a","i","n",".","g","o">>,
      <<"s","r","c","/","x","/","u","t","i","l",".","p","y">> }

NoIgnoreCall == [path |-> <<>>, called |-> FALSE, ignored |-> FALSE]

\* shouldIgnore is called with a path.
ShouldIgnore_Call ==
    /\ \E path \in IgnorePaths :
          ig' = [path |-> path, called |-> TRUE, ignored |-> shouldIgnore(path)]
    /\ UNCHANGED <<scanVars, lcVars, anVars, srVars, cliVars, fnVars, gitVars>>

createFileInfo(e) ==
    [Path |-> AbsPath(e),
     RelativePath |-> e.rel,
     Size |-> Len(e.bytes),
     Extension |-> ToLower(Ext(AbsPath(e))),
     IsText |-> FALSE,
     LineCount |-> 0,
     Content |-> <<>>,
     FirstBytes |-> <<>>,
     ModTime |-> e.mtime]

\* os.Open and one Read of up to 512 bytes: the error, and what FirstBytes
\* is left as (the bytes read; nothing when os.Open failed; the untruncated
\* zeroed buffer when Read failed).
readFirstBytes(e) ==
    CASE e.fail = "open" -> [bytes |-> <<>>, err |-> TRUE]
      [] e.fail = "firstRead" -> [bytes |-> [i \in 1..FirstBytesSize |-> NUL], err |-> TRUE]
      [] OTHER -> [bytes |-> Prefix(e.bytes, FirstBytesSize), err |-> FALSE]

isTextFromBytes(bytes) == \A i \in 1..Len(bytes) : bytes[i] # NUL

\* os.Open and io.ReadAll: the error, and what Content is left as (io.ReadAll
\* returns the bytes it read before a failure, and they are assigned).
cacheFileContent(e) ==
    CASE e.fail \in {"open", "cacheOpen"} -> [bytes |-> <<>>, err |-> TRUE]
      [] e.fail = "cacheRead" -> [bytes |-> Prefix(e.bytes, e.good), err |-> TRUE]
      [] OTHER -> [bytes |-> e.bytes, err |-> FALSE]

\* handleTextFileContent without the size test.
handleTextFileContent_AnySize(fileInfo, e) == cacheFileContent(e).bytes

\* The Content the record gets.
handleTextFileContent(fileInfo, e) ==
    IF fileInfo.Size <= maxCacheSize
    THEN cacheFileContent(e).bytes
    ELSE <<>>

countLines(e) ==
    IF e.fail \in {"open", "count"} THEN [n |-> 0, err |-> TRUE]
    ELSE IF Len(e.bytes) > streamThreshold
         THEN [n |-> streamingLineCount(e.bytes), err |-> FALSE]
         ELSE bufioLineCount(e.bytes)

\* The LineCount the record gets.
calculateLineCount(fileInfo, e) ==
    IF Len(fileInfo.Content) > 0
    THEN countLinesFromBytes(fileInfo.Content)
    ELSE LET r == countLines(e)
         IN  IF ~r.err THEN r.n ELSE fileInfo.LineCount

analyzeFileContent(fileInfo, e) ==
    LET first == readFirstBytes(e)
    IN  IF first.err
        THEN [fileInfo EXCEPT !.FirstBytes = first.bytes, !.IsText = FALSE]
        ELSE LET f1 == [fileInfo EXCEPT !.FirstBytes = first.bytes,
                                        !.IsText = isTextFromBytes(first.bytes)]
             IN  IF ~f1.IsText THEN f1
                 ELSE LET f2 == [f1 EXCEPT !.Content = handleTextFileContent(f1, e)]
                      IN  [f2 EXCEPT !.LineCount = calculateLineCount(f2, e)]

\* processFile: whether a record is inserted, and the record.
processFile(e) ==
    IF shouldIgnore(e.rel)
    THEN [insert |-> FALSE, rec |-> createFileInfo(e), res |-> "nil"]
    ELSE [insert |-> TRUE, rec |-> analyzeFileContent(createFileInfo(e), e), res |-> "nil"]

\* processUnifiedPath: what the walk function returns for an entry ("nil",
\* "SkipDir" or "err"), and the record it inserts, if any.
processUnifiedPath(e, err) ==
    IF err THEN [insert |-> FALSE, rec |-> createFileInfo(e), res |-> "err"]
    ELSE IF shouldSkipDirectory(e) # "nil"
         THEN [insert |-> FALSE, rec |-> createFileInfo(e), res |-> shouldSkipDirectory(e)]
         ELSE IF e.dir
              THEN [insert |-> FALSE, rec |-> createFileInfo(e), res |-> "nil"]
              ELSE processFile(e)

\* filepath.Walk: the entry visited after entry i, given what the walk
\* function returned for it.  SkipDir for a directory skips its subtree;
\* SkipDir for a file skips what is left of the directory that holds it.
walkNext(t, i, res) ==
    LET below == IF t[i].dir THEN t[i].depth ELSE t[i].depth - 1
        rest == {j \in (i + 1)..Len(t) : t[j].depth <= below}
    IN  IF res = "SkipDir"
        THEN (IF rest = {} THEN Len(t) + 1
              ELSE CHOOSE j \in rest : \A k \in rest : j <= k)
        ELSE i + 1

-----------------------------------------------------------------------------
(* The cache, the callers and their calls. *)

EmptyMap == [x \in {} |-> x]

\* What a map (relative path -> address) shows to whoever follows its pointers.
View(m) == [k \in DOMAIN m |-> heap[m[k]]]

\* The FileInfo the legacy interface makes of a record.
ToFileInfo(file) ==
    [Path |-> file.Path,
     RelativePath |-> file.RelativePath,
     Size |-> file.Size,
     Extension |-> file.Extension,
     IsText |-> file.IsText,
     LineCount |-> file.LineCount]

\* A frame of a call in progress.  st is "start" (called, no lock taken yet),
\* "locked" or "walk" (holding the lock), or the number of the nested call a
\* composite operation is waiting for.
Frame(op, st) ==
    [path |-> <<>>, op |-> op, st |-> st, id |-> 0, flt |-> "", exts |-> <<>>, min |-> 0]

\* A returned value: k is "none", "err", "map" (the live map id), "copy" (a
\* new map m), "rec" (addrs and exists), "recs" (addrs) or "infos"; by is
\* the operation that returned it.
Ret(k) ==
    [k |-> k, m |-> EmptyMap, id |-> 0, by |-> "", addrs |-> {}, exists |-> FALSE,
     infos |-> {}]

\* The arguments the callers use.
QueryPaths == { <<"m","a","i","n",".","g","o">> }
Filters == {"isText"}
ExtArgs == { << <<".","G","O">> >> }
MinSizes == {5}

\* The predicates given to FilterCachedFiles.
ApplyFilter(flt, file) == IF flt = "isText" THEN file.IsText ELSE TRUE

Top(p) == stack[p][1]

Readers == {"GetCachedFiles", "GetCachedFile", "FilterCachedFiles"}

\* A Lock that excludes nobody.
LockFree_NoExclusion == TRUE

\* sync.RWMutex: when Lock and RLock can be taken.
LockFree == writer = None /\ readers = {}

\* An RLock that does not wait for the writer.
RLockFree_DuringWrite == TRUE

RLockFree == writer = None

\* A top-level call by caller p begins with the given frames.
Begin(p, frames, scans) ==
    /\ stack[p] = <<>>
    /\ nScans + scans <= MaxScans
    /\ nScans' = nScans + scans
    /\ stack' = [stack EXCEPT ![p] = frames]
    /\ ret' = [ret EXCEPT ![p] = Ret("none")]
    /\ sawErr' = [sawErr EXCEPT ![p] = FALSE]
    /\ UNCHANGED <<tree, gitIgnores, cacheFiles, mapObj, heap, writer, readers,
                   pos, werr, hist>>
    /\ UNCHANGED <<lcVars, anVars, srVars, cliVars, igVars, fnVars, gitVars>>

CallScanAllFiles(p) == Begin(p, <<Frame("ScanAllFiles", "start")>>, 1)

CallGetCachedFiles(p) == Begin(p, <<Frame("GetCachedFiles", "start")>>, 0)

CallGetCachedFile(p) ==
    \E x \in QueryPaths :
        Begin(p, <<[Frame("GetCachedFile", "start") EXCEPT !.path = x]>>, 0)

CallFilterCachedFiles(p) ==
    \E f \in Filters :
        Begin(p, <<[Frame("FilterCachedFiles", "start") EXCEPT !.flt = f]>>, 0)

\* ScanFiles begins with its call of GetCachedFiles.
CallScanFiles(p) ==
    Begin(p, <<Frame("GetCachedFiles", "start"), Frame("ScanFiles", 1)>>, 1)

CallGetFilesByExtension(p) ==
    \E x \in ExtArgs :
        Begin(p, <<Frame("GetCachedFiles", "start"),
                   [Frame("GetFilesByExtension", 1) EXCEPT !.exts = x]>>, 1)

CallGetLargeFiles(p) ==
    \E n \in MinSizes :
        Begin(p, <<Frame("GetCachedFiles", "start"),
                   [Frame("GetLargeFiles", 1) EXCEPT !.min = n]>>, 1)

\* The innermost call of p ends: its frame is popped, v is what it returns.
Return(p, v) ==
    /\ stack' = [stack EXCEPT ![p] = Tail(@)]
    /\ ret' = [ret EXCEPT ![p] = [v EXCEPT !.by = Top(p).op]]

\* ScanAllFiles: the write lock is taken and the cache is reset to a new map.
\* ScanAllFiles that empties the map it has instead of making a new one.
ScanAllFiles_Lock_ClearInPlace(p) ==
    /\ stack[p] # <<>>
    /\ Top(p).op = "ScanAllFiles" /\ Top(p).st = "start"
    /\ LockFree
    /\ writer' = p
    /\ mapObj' = [mapObj EXCEPT ![cacheFiles] = EmptyMap]
    /\ stack' = [stack EXCEPT ![p][1].st = "walk", ![p][1].id = cacheFiles]
    /\ pos' = [pos EXCEPT ![p] = 1]
    /\ werr' = [werr EXCEPT ![p] = FALSE]
    /\ UNCHANGED <<tree, gitIgnores, cacheFiles, heap, readers, ret, nScans, hist, sawErr>>
    /\ UNCHANGED <<lcVars, anVars, srVars, cliVars, igVars, fnVars, gitVars>>

ScanAllFiles_Lock(p) ==
    /\ stack[p] # <<>>
    /\ Top(p).op = "ScanAllFiles" /\ Top(p).st = "start"
    /\ LockFree
    /\ LET n == Cardinality(DOMAIN mapObj)
       IN  /\ writer' = p
           /\ mapObj' = (n :> EmptyMap) @@ mapObj
           /\ cacheFiles' = n
           /\ stack' = [stack EXCEPT ![p][1].st = "walk", ![p][1].id = n]
    /\ pos' = [pos EXCEPT ![p] = 1]
    /\ werr' = [werr EXCEPT ![p] = FALSE]
    /\ UNCHANGED <<tree, gitIgnores, heap, readers, ret, nScans, hist, sawErr>>
    /\ UNCHANGED <<lcVars, anVars, srVars, cliVars, igVars, fnVars, gitVars>>

\* filepath.Walk calls the walk function for the next entry; err tells
\* whether Walk hands it an error (lstat or ReadDir failed on the entry).
WalkStep(p, err) ==
    /\ stack[p] # <<>>
    /\ Top(p).op = "ScanAllFiles" /\ Top(p).st = "walk"
    /\ ~werr[p]
    /\ pos[p] \in 1..Len(tree)
    /\ \E e \in {tree[pos[p]]} :
       \E r \in {processUnifiedPath(e, err)}, a \in {<<Top(p).id, e.rel>>} :
           /\ IF r.insert
              THEN /\ heap' = (a :> r.rec) @@ heap
                   /\ mapObj' = [mapObj EXCEPT ![cacheFiles] = (e.rel :> a) @@ @]
              ELSE UNCHANGED <<heap, mapObj>>
           /\ IF r.res = "err"
              THEN /\ werr' = [werr EXCEPT ![p] = TRUE]
                   /\ UNCHANGED pos
              ELSE /\ pos' = [pos EXCEPT ![p] = walkNext(tree, pos[p], r.res)]
                   /\ UNCHANGED werr
    /\ sawErr' = [sawErr EXCEPT ![p] = @ \/ err]
    /\ UNCHANGED <<tree, gitIgnores, cacheFiles, writer, readers, stack, ret,
                   nScans, hist>>
    /\ UNCHANGED <<lcVars, anVars, srVars, cliVars, igVars, fnVars, gitVars>>

Visit(p) == WalkStep(p, FALSE)

VisitErr(p) == WalkStep(p, TRUE)

\* ScanAllFiles with an Unlock on the success path only.
ScanAllFiles_Return_KeepLockOnError(p) ==
    /\ stack[p] # <<>>
    /\ Top(p).op = "ScanAllFiles" /\ Top(p).st = "walk"
    /\ werr[p] \/ pos[p] > Len(tree)
    /\ writer' = IF werr[p] THEN p ELSE None
    /\ Return(p, IF werr[p] THEN Ret("err") ELSE [Ret("map") EXCEPT !.id = cacheFiles])
    /\ hist' = Append(hist, [id |-> Top(p).id, ok |-> ~werr[p], envErr |-> sawErr[p],
                             snap |-> View(mapObj[cacheFiles])])
    /\ pos' = [pos EXCEPT ![p] = 0]
    /\ werr' = [werr EXCEPT ![p] = FALSE]
    /\ UNCHANGED <<tree, gitIgnores, cacheFiles, mapObj, heap, readers, nScans, sawErr>>
    /\ UNCHANGED <<lcVars, anVars, srVars, cliVars, igVars, fnVars, gitVars>>

\* ScanAllFiles returns: the walk is over or has failed; the deferred Unlock runs.
ScanAllFiles_Return(p) ==
    /\ stack[p] # <<>>
    /\ Top(p).op = "ScanAllFiles" /\ Top(p).st = "walk"
    /\ werr[p] \/ pos[p] > Len(tree)
    /\ writer' = None
    /\ Return(p, IF werr[p] THEN Ret("err") ELSE [Ret("map") EXCEPT !.id = cacheFiles])
    /\ hist' = Append(hist, [id |-> Top(p).id, ok |-> ~werr[p], envErr |-> sawErr[p],
                             snap |-> View(mapObj[cacheFiles])])
    /\ pos' = [pos EXCEPT ![p] = 0]
    /\ werr' = [werr EXCEPT ![p] = FALSE]
    /\ UNCHANGED <<tree, gitIgnores, cacheFiles, mapObj, heap, readers, nScans, sawErr>>
    /\ UNCHANGED <<lcVars, anVars, srVars, cliVars, igVars, fnVars, gitVars>>

\* A read operation takes the read lock.
RLock(p) ==
    /\ stack[p] # <<>>
    /\ Top(p).op \in Readers /\ Top(p).st = "start"
    /\ RLockFree
    /\ readers' = readers \cup {p}
    /\ stack' = [stack EXCEPT ![p][1].st = "locked"]
    /\ UNCHANGED <<tree, gitIgnores, cacheFiles, mapObj, heap, writer, ret, pos,
                   werr, nScans, hist, sawErr>>
    /\ UNCHANGED <<lcVars, anVars, srVars, cliVars, igVars, fnVars, gitVars>>

\* The body of a read operation, to its deferred RUnlock; v is what it returns.
ReadBody(p, op, v) ==
    /\ stack[p] # <<>>
    /\ Top(p).op = op /\ Top(p).st = "locked"
    /\ readers' = readers \ {p}
    /\ Return(p, v)
    /\ UNCHANGED <<tree, gitIgnores, cacheFiles, mapObj, heap, writer, pos,
                   werr, nScans, hist, sawErr>>
    /\ UNCHANGED <<lcVars, anVars, srVars, cliVars, igVars, fnVars, gitVars>>

\* GetCachedFiles: a new map with the keys and the pointers of the live map.
GetCachedFiles(p) ==
    ReadBody(p, "GetCachedFiles", [Ret("copy") EXCEPT !.m = mapObj[cacheFiles]])

\* GetCachedFile: the pointer the live map holds for the path.
GetCachedFile(p) ==
    ReadBody(p, "GetCachedFile",
             LET files == mapObj[cacheFiles]
                 x == stack[p][1].path
             IN  IF x \in DOMAIN files
                 THEN [Ret("rec") EXCEPT !.addrs = {files[x]}, !.exists = TRUE]
                 ELSE Ret("rec"))

\* FilterCachedFiles: the pointers of the live map the predicate accepts.
FilterCachedFiles(p) ==
    ReadBody(p, "FilterCachedFiles",
             LET files == mapObj[cacheFiles]
             IN  [Ret("recs") EXCEPT !.addrs =
                     {files[k] : k \in {x \in DOMAIN files :
                                           ApplyFilter(stack[p][1].flt, heap[files[x]])}}])

\* A composite operation goes on after a nested call: it calls again (the
\* frames are pushed and it waits for call number st), or it returns v.
Continue(p, frames, st) ==
    /\ stack' = [stack EXCEPT ![p] = frames \o <<[Top(p) EXCEPT !.st = st]>> \o Tail(@)]
    /\ UNCHANGED ret

Composite(p, op) ==
    /\ stack[p] # <<>>
    /\ Top(p).op = op
    /\ UNCHANGED <<tree, gitIgnores, cacheFiles, mapObj, heap, writer, readers,
                   pos, werr, nScans, hist, sawErr>>
    /\ UNCHANGED <<lcVars, anVars, srVars, cliVars, igVars, fnVars, gitVars>>

\* The FileInfo list ScanFiles builds from a map of cached files.
Convert(m) == [Ret("infos") EXCEPT !.infos = {ToFileInfo(heap[m[k]]) : k \in DOMAIN m}]

\* ScanFiles going on after a failed ScanAllFiles.
ScanFiles_IgnoreScanError(p) ==
    /\ Composite(p, "ScanFiles")
    /\ CASE Top(p).st = 1 ->
               IF DOMAIN ret[p].m = {}
               THEN Continue(p, <<Frame("ScanAllFiles", "start")>>, 2)
               ELSE Return(p, Convert(ret[p].m))
         [] Top(p).st = 2 -> Continue(p, <<Frame("GetCachedFiles", "start")>>, 3)
         [] OTHER -> Return(p, Convert(ret[p].m))

ScanFiles(p) ==
    /\ Composite(p, "ScanFiles")
    /\ CASE Top(p).st = 1 ->
               IF DOMAIN ret[p].m = {}
               THEN Continue(p, <<Frame("ScanAllFiles", "start")>>, 2)
               ELSE Return(p, Convert(ret[p].m))
         [] Top(p).st = 2 ->
               IF ret[p].k = "err"
               THEN Return(p, Ret("err"))
               ELSE Continue(p, <<Frame("GetCachedFiles", "start")>>, 3)
         [] OTHER -> Return(p, Convert(ret[p].m))

\* Whether an extension is one of the wanted ones.
WantedExt(ext, exts) == \E i \in 1..Len(exts) : ext = ToLower(exts[i])

filterByExtensionFromCache(m, exts) ==
    [Ret("infos") EXCEPT !.infos =
        {ToFileInfo(heap[m[k]]) : k \in {x \in DOMAIN m : WantedExt(heap[m[x]].Extension, exts)}}]

GetFilesByExtension(p) ==
    /\ Composite(p, "GetFilesByExtension")
    /\ CASE Top(p).st = 1 ->
               IF DOMAIN ret[p].m # {}
               THEN Return(p, filterByExtensionFromCache(ret[p].m, Top(p).exts))
               ELSE Continue(p, <<Frame("GetCachedFiles", "start"), Frame("ScanFiles", 1)>>, 2)
         [] OTHER ->
               IF ret[p].k = "err"
               THEN Return(p, Ret("err"))
               ELSE Return(p, [Ret("infos") EXCEPT !.infos =
                       {f \in ret[p].infos : WantedExt(f.Extension, Top(p).exts)}])

filterLargeFilesFromCache(m, minSizeBytes) ==
    [Ret("infos") EXCEPT !.infos =
        {ToFileInfo(heap[m[k]]) : k \in {x \in DOMAIN m : heap[m[x]].Size >= minSizeBytes}}]

GetLargeFiles(p) ==
    /\ Composite(p, "GetLargeFiles")
    /\ CASE Top(p).st = 1 ->
               IF DOMAIN ret[p].m # {}
               THEN Return(p, filterLargeFilesFromCache(ret[p].m, Top(p).min))
               ELSE Continue(p, <<Frame("GetCachedFiles", "start"), Frame("ScanFiles", 1)>>, 2)
         [] OTHER ->
               IF ret[p].k = "err"
               THEN Return(p, Ret("err"))
               ELSE Return(p, [Ret("infos") EXCEPT !.infos =
                       {f \in ret[p].infos : f.Size >= Top(p).min}])

\* The records a caller reaches through the value its last call returned.
HeldAddrs(p) ==
    CASE ret[p].k = "copy" -> {ret[p].m[k] : k \in DOMAIN ret[p].m}
      [] ret[p].k = "map" -> {mapObj[ret[p].id][k] : k \in DOMAIN mapObj[ret[p].id]}
      [] ret[p].k \in {"rec", "recs"} -> ret[p].addrs
      [] OTHER -> {}

\* The modifications callers have made to the records and the maps the
\* traversals built: the records written to and the keys deleted.
CallerWrites ==
    Cardinality({a \in DOMAIN heap : heap[a].LineCount = -1})
        + Cardinality({a \in DOMAIN heap : a[2] \notin DOMAIN mapObj[a[1]]})

\* A map without one of its keys.
Without(m, k) == [x \in DOMAIN m \ {k} |-> m[x]]

\* A caller assigns to a field of a record it was handed: file.LineCount = -1.
CallerWritesRecord(p) ==
    /\ stack[p] = <<>>
    /\ CallerWrites < MaxCallerWrites
    /\ \E a \in HeldAddrs(p) :
          /\ heap[a].LineCount # -1
          /\ heap' = [heap EXCEPT ![a].LineCount = -1]
    /\ UNCHANGED <<tree, gitIgnores, cacheFiles, mapObj, writer, readers, stack,
                   ret, pos, werr, nScans, hist, sawErr>>
    /\ UNCHANGED <<lcVars, anVars, srVars, cliVars, igVars, fnVars, gitVars>>

\* A caller deletes a key of a map it was handed: delete(files, k).  The map
\* of GetCachedFiles is the caller's own, the map of ScanAllFiles is the
\* map object the call returned.
CallerDeletesKey(p) ==
    /\ stack[p] = <<>>
    /\ \/ /\ ret[p].k = "copy"
          /\ \E k \in DOMAIN ret[p].m : ret' = [ret EXCEPT ![p].m = Without(@, k)]
          /\ UNCHANGED mapObj
       \/ /\ ret[p].k = "map"
          /\ CallerWrites < MaxCallerWrites
          /\ \E k \in DOMAIN mapObj[ret[p].id] :
                mapObj' = [mapObj EXCEPT ![ret[p].id] = Without(@, k)]
          /\ UNCHANGED ret
    /\ UNCHANGED <<tree, gitIgnores, cacheFiles, heap, writer, readers, stack,
                   pos, werr, nScans, hist, sawErr>>
    /\ UNCHANGED <<lcVars, anVars, srVars, cliVars, igVars, fnVars, gitVars>>


-----------------------------------------------------------------------------
(* Text and regular expressions.  A text is a sequence of bytes; a pattern  *)
(* source and a path are sequences of one-character strings.                *)

\* The printable ASCII characters, ' ' (32) to '~' (126); the grave accent
\* (96) is spelled out.
Ascii ==
    <<" ", "!", "\"", "#", "$", "%", "&", "'", "(", ")", "*", "+", ",", "-", ".", "/",
       "0", "1", "2", "3", "4", "5", "6", "7", "8", "9", ":", ";", "<", "=", ">", "?",
       "@", "A", "B", "C", "D", "E", "F", "G", "H", "I", "J", "K", "L", "M", "N", "O",
       "P", "Q", "R", "S", "T", "U", "V", "W", "X", "Y", "Z", "[", "\\", "]", "^", "_",
       "grave", "a", "b", "c", "d", "e", "f", "g", "h", "i", "j", "k", "l", "m", "n", "o",
       "p", "q", "r", "s", "t", "u", "v", "w", "x", "y", "z", "{", "|", "}", "~" >>

\* The byte of a character.
Ord(c) ==
    CASE c = "\n" -> 10
      [] c = "\t" -> 9
      [] OTHER -> 31 + (CHOOSE i \in 1..Len(Ascii) : Ascii[i] = c)

\* The bytes of a string.
B(s) == [i \in 1..Len(s) |-> Ord(s[i])]

ByteRange == 0..255

\* strings.ToLower on bytes.
LowerBytes(t) == [i \in 1..Len(t) |-> IF t[i] \in 65..90 THEN t[i] + 32 ELSE t[i]]

\* (?i): a class with the other case of each of its letters.
FoldCase(cls) ==
    cls \cup {c + 32 : c \in cls \cap (65..90)} \cup {c - 32 : c \in cls \cap (97..122)}

\* A Perl class or an escaped character after a backslash: the class, or
\* an error for a letter regexp/syntax gives no meaning.
escapeClass(c) ==
    CASE c = "s" -> [err |-> FALSE, cls |-> {9, 10, 12, 13, 32}]
      [] c = "d" -> [err |-> FALSE, cls |-> 48..57]
      [] c = "w" -> [err |-> FALSE, cls |-> (48..57) \cup (65..90) \cup (97..122) \cup {95}]
      [] c = "t" -> [err |-> FALSE, cls |-> {9}]
      [] c = "n" -> [err |-> FALSE, cls |-> {10}]
      [] Ord(c) \in (65..90) \cup (97..122) \cup (48..57) -> [err |-> TRUE, cls |-> {}]
      [] OTHER -> [err |-> FALSE, cls |-> {Ord(c)}]

\* The inside of a bracket expression, to its closing bracket.  A "]" that
\* comes first is a literal; a pattern that ends before the closing bracket
\* does not compile.
RECURSIVE classBody(_, _, _)
classBody(s, acc, first) ==
    IF s = <<>> THEN [rest |-> <<>>, err |-> TRUE, cls |-> {}]
    ELSE IF Head(s) = "]" /\ ~first THEN [rest |-> Tail(s), err |-> FALSE, cls |-> acc]
    ELSE IF Head(s) = "\\"
         THEN IF Len(s) < 2 \/ escapeClass(s[2]).err
              THEN [rest |-> <<>>, err |-> TRUE, cls |-> {}]
              ELSE classBody(Drop(s, 2), acc \cup escapeClass(s[2]).cls, FALSE)
    ELSE IF Len(s) >= 3 /\ s[2] = "-" /\ s[3] # "]"
         THEN IF Ord(s[1]) > Ord(s[3])
              THEN [rest |-> <<>>, err |-> TRUE, cls |-> {}]
              ELSE classBody(Drop(s, 3), acc \cup (Ord(s[1])..Ord(s[3])), FALSE)
    ELSE classBody(Tail(s), acc \cup {Ord(Head(s))}, FALSE)

\* One atom of a pattern: a bracket expression, an escape, "." or a literal.
\* A repetition operator with nothing to repeat does not compile.  Groups,
\* alternation and the anchors ^ and $ are not among the patterns modelled.
parseAtom(s) ==
    CASE Head(s) = "[" ->
            LET neg == Len(s) >= 2 /\ s[2] = "^"
                body == classBody(Drop(s, IF neg THEN 2 ELSE 1), {}, TRUE)
            IN  [body EXCEPT !.cls = IF neg THEN ByteRange \ @ ELSE @]
      [] Head(s) = "\\" ->
            IF Len(s) < 2 \/ escapeClass(s[2]).err
            THEN [rest |-> <<>>, err |-> TRUE, cls |-> {}]
            ELSE [rest |-> Drop(s, 2), err |-> FALSE, cls |-> escapeClass(s[2]).cls]
      [] Head(s) = "." -> [rest |-> Tail(s), err |-> FALSE, cls |-> ByteRange \ {10}]
      [] Head(s) \in {"*", "+", "?", "(", ")", "|"} ->
            [rest |-> <<>>, err |-> TRUE, cls |-> {}]
      [] OTHER -> [rest |-> Tail(s), err |-> FALSE, cls |-> {Ord(Head(s))}]

\* The decimal number a string starts with: its value and its length.
RECURSIVE numPrefix(_, _, _)
numPrefix(s, n, len) ==
    IF s # <<>> /\ Ord(Head(s)) \in 48..57
    THEN numPrefix(Tail(s), 10 * n + (Ord(Head(s)) - 48), len + 1)
    ELSE [n |-> n, len |-> len]

\* The repetition that follows an atom: ?, *, +, {n}, {n,} or {n,m}; max is
\* -1 when there is no upper bound.  A "{" that starts no repetition is a
\* literal of the next atom.
parseRepeat(s) ==
    LET one == [rest |-> s, min |-> 1, max |-> 1]
    IN  IF s = <<>> THEN one
        ELSE CASE Head(s) = "?" -> [rest |-> Tail(s), min |-> 0, max |-> 1]
               [] Head(s) = "*" -> [rest |-> Tail(s), min |-> 0, max |-> -1]
               [] Head(s) = "+" -> [rest |-> Tail(s), min |-> 1, max |-> -1]
               [] Head(s) = "{" ->
                     LET lo == numPrefix(Tail(s), 0, 0)
                         a == Drop(s, 1 + lo.len)
                     IN  IF lo.len = 0 \/ a = <<>> THEN one
                         ELSE IF Head(a) = "}"
                              THEN [rest |-> Tail(a), min |-> lo.n, max |-> lo.n]
                         ELSE IF Head(a) # "," THEN one
                         ELSE LET hi == numPrefix(Tail(a), 0, 0)
                                  b == Drop(a, 1 + hi.len)
                              IN  IF b = <<>> \/ Head(b) # "}" THEN one
                                  ELSE [rest |-> Tail(b),
                                        min |-> lo.n,
                                        max |-> IF hi.len = 0 THEN -1 ELSE hi.n]
               [] OTHER -> one

\* The items of a pattern: each a class of bytes with a least and a largest
\* number of repetitions.
RECURSIVE parseItems(_, _)
parseItems(s, fold) ==
    IF s = <<>> THEN [err |-> FALSE, items |-> <<>>]
    ELSE LET then(it, t) ==
                 IF t.err THEN t ELSE [err |-> FALSE, items |-> <<it>> \o t.items]
             repeated(a, r) ==
                 then([min |-> r.min,
                       cls |-> IF fold THEN FoldCase(a.cls) ELSE a.cls,
                       max |-> r.max],
                      parseItems(r.rest, fold))
             atom(a) ==
                 IF a.err THEN [err |-> TRUE, items |-> <<>>]
                 ELSE repeated(a, parseRepeat(a.rest))
         IN  atom(parseAtom(s))

\* regexp.Compile: the compiled pattern, or an error.  src is kept for
\* Regexp.String.
Compile(src) ==
    LET parsed(p) == [err |-> p.err, items |-> p.items, src |-> src]
    IN  IF HasPrefix(src, <<"(", "?", "i", ")">>)
        THEN parsed(parseItems(Drop(src, 4), TRUE))
        ELSE parsed(parseItems(src, FALSE))

\* The end of the match of the items at position i of a text (the index
\* after its last byte), or -1: each item takes as many bytes as it can and
\* gives them back one by one until what follows matches.
RECURSIVE matchEnd(_, _, _)
RECURSIVE matchTake(_, _, _, _)
matchTake(items, s, i, n) ==
    IF n < Head(items).min THEN -1
    ELSE LET e == matchEnd(Tail(items), s, i + n)
         IN  IF e # -1 THEN e ELSE matchTake(items, s, i, n - 1)

matchEnd(items, s, i) ==
    IF items = <<>> THEN i
    ELSE LET it == Head(items)
             left == Len(s) - i + 1
             lim == IF it.max = -1 THEN left ELSE Min(it.max, left)
             run == CHOOSE r \in 0..lim :
                        /\ \A k \in i..(i + r - 1) : s[k] \in it.cls
                        /\ r = lim \/ s[i + r] \notin it.cls
         IN  matchTake(items, s, i, run)

\* Regexp.MatchString
MatchString(re, s) == \E i \in 1..(Len(s) + 1) : matchEnd(re.items, s, i) # -1

\* Regexp.FindAllString(s, -1): the leftmost matches that do not overlap,
\* from position i on; an empty match that touches the match before it is
\* left out.
RECURSIVE findAll(_, _, _, _)
findAll(re, s, i, prev) ==
    IF ~\E j \in i..(Len(s) + 1) : matchEnd(re.items, s, j) # -1 THEN <<>>
    ELSE LET j == CHOOSE k \in i..(Len(s) + 1) :
                      /\ matchEnd(re.items, s, k) # -1
                      /\ \A l \in i..(k - 1) : matchEnd(re.items, s, l) = -1
             e == matchEnd(re.items, s, j)
         IN  IF e = j /\ j = prev THEN findAll(re, s, j + 1, prev)
             ELSE <<SubSeq(s, j, e - 1)>> \o findAll(re, s, IF e > j THEN e ELSE j + 1, e)

FindAllString(re, s) == findAll(re, s, 1, 0)

\* strings.Split(content, "\n")
RECURSIVE splitLines(_, _)
splitLines(t, cur) ==
    IF t = <<>> THEN <<cur>>
    ELSE IF Head(t) = NL THEN <<cur>> \o splitLines(Tail(t), <<>>)
         ELSE splitLines(Tail(t), Append(cur, Head(t)))

-----------------------------------------------------------------------------
(* The configuration of the security analyzer. *)

\* DefaultConfig: Security.SecretPatterns
DefaultSecretPatterns ==
    << <<"(","?","i",")","a","p","i","[","_","-","]","?","k","e","y","[","\\","s","]","*","[",":","=","]","[","\\","s","]","*","[","'","\"","]","?","[","a","-","z","A","-","Z","0","-","9","]","{","2","0",",","}","[","'","\"","]","?">>,
       <<"(","?","i",")","p","a","s","s","w","o","r","d","[","\\","s","]","*","[",":","=","]","[","\\","s","]","*","[","'","\"","]","?","[","^","\\","s","'","\"","]","{","8",",","}","[","'","\"","]","?">>,
       <<"(","?","i",")","s","e","c","r","e","t","[","\\","s","]","*","[",":","=","]","[","\\","s","]","*","[","'","\"","]","?","[","a","-","z","A","-","Z","0","-","9","]","{","1","6",",","}","[","'","\"","]","?">>,
       <<"(","?","i",")","t","o","k","e","n","[","\\","s","]","*","[",":","=","]","[","\\","s","]","*","[","'","\"","]","?","[","a","-","z","A","-","Z","0","-","9","]","{","2","0",",","}","[","'","\"","]","?">>,
       <<"(","?","i",")","p","r","i","v","a","t","e","[","_","-","]","?","k","e","y">>,
       <<"(","?","i",")","a","c","c","e","s","s","[","_","-","]","?","t","o","k","e","n","[","\\","s","]","*","[",":","=","]","[","\\","s","]","*","[","'","\"","]","?","[","a","-","z","A","-","Z","0","-","9","]","{","2","0",",","}","[","'","\"","]","?">>,
       <<"(","?","i",")","a","u","t","h","[","_","-","]","?","t","o","k","e","n","[","\\","s","]","*","[",":","=","]","[","\\","s","]","*","[","'","\"","]","?","[","a","-","z","A","-","Z","0","-","9","]","{","2","0",",","}","[","'","\"","]","?">>,
       <<"(","?","i",")","d","a","t","a","b","a","s","e","[","_","-","]","?","u","r","l","[","\\","s","]","*","[",":","=","]","[","\\","s","]","*","[","'","\"","]","?","[","^","\\","s","'","\"","]","+","[","'","\"","]","?">>,
       <<"(","?","i",")","c","o","n","n","e","c","t","i","o","n","[","_","-","]","?","s","t","r","i","n","g","[","\\","s","]","*","[",":","=","]","[","\\","s","]","*","[","'","\"","]","?","[","^","\\","s","'","\"","]","+","[","'","\"","]","?">> >>

\* DefaultConfig: Security.SuspiciousFiles
DefaultSuspiciousFiles ==
    << <<"*",".","p","e","m">>,
       <<"*",".","k","e","y">>,
       <<"*",".","p","1","2">>,
       <<"*",".","p","f","x">>,
       <<"*",".","j","k","s">>,
       <<".","e","n","v">>,
       <<".","e","n","v",".","*">>,
       <<"*",".","e","n","v">>,
       <<"i","d","_","r","s","a">>,
       <<"i","d","_","d","s","a">>,
       <<"i","d","_","e","c","d","s","a">>,
       <<"i","d","_","e","d","2","5","5","1","9">>,
       <<"*",".","d","u","m","p">>,
       <<"*",".","b","a","c","k","u","p">>,
       <<"d","a","t","a","b","a","s","e",".","s","q","l">>,
       <<"d","b","_","d","u","m","p",".","s","q","l">> >>

\* DefaultConfig: Security
DefaultSecurity ==
    [SecretPatterns |-> DefaultSecretPatterns,
     SuspiciousFiles |-> DefaultSuspiciousFiles,
     AllowedSecrets |-> <<>>]

-----------------------------------------------------------------------------
(* Searching files for a pattern. *)

\* bufio.ScanLines: a line without its trailing '\r'.
dropCR(line) ==
    IF line # <<>> /\ line[Len(line)] = 13 THEN SubSeq(line, 1, Len(line) - 1) ELSE line

\* The index of the first '\n' of a text, 0 when it has none.
FirstNL(t) ==
    IF \E i \in 1..Len(t) : t[i] = NL
    THEN CHOOSE i \in 1..Len(t) : t[i] = NL /\ \A j \in 1..(i - 1) : t[j] # NL
    ELSE 0

\* The loop "for scanner.Scan()" of searchInFile and searchInFileStreaming
\* over what is left of a file: the matches, and scanner.Err().  The
\* scanner stops with ErrTooLong at a line that does not fit a buffer of
\* maxTokenSize bytes.
RECURSIVE scanLines(_, _, _, _, _)
scanLines(rest, lineNum, regex, relPath, maxTokenSize) ==
    IF rest = <<>> THEN [err |-> FALSE, matches |-> <<>>]
    ELSE LET nl == FirstNL(rest)
             raw == IF nl = 0 THEN rest ELSE SubSeq(rest, 1, nl - 1)
             after == IF nl = 0 THEN <<>> ELSE Drop(rest, nl)
         IN  IF Len(raw) >= maxTokenSize THEN [err |-> TRUE, matches |-> <<>>]
             ELSE LET line == dropCR(raw)
                      m == IF MatchString(regex, line)
                           THEN <<[Content |-> line, File |-> relPath,
                                   Line |-> lineNum, Pattern |-> regex.src]>>
                           ELSE <<>>
                      t == scanLines(after, lineNum + 1, regex, relPath, maxTokenSize)
                  IN  [err |-> t.err, matches |-> m \o t.matches]

\* searchInFileStreaming that numbers the lines from 0.
searchInFileStreaming_FromZero(content, relPath, regex) ==
    scanLines(content, 0, regex, relPath, streamMaxTokenSize)

\* searchInFileStreaming, on the content of the file.
searchInFileStreaming(content, relPath, regex) ==
    scanLines(content, 1, regex, relPath, streamMaxTokenSize)

\* The branch of searchInFile for files of at most 1 MiB, on the content of
\* the file.
searchInFileBuffered(content, relPath, regex) ==
    scanLines(content, 1, regex, relPath, maxScanTokenSize)

searchInFile(e, regex) ==
    IF e.fail = "open" THEN [err |-> TRUE, matches |-> <<>>]
    ELSE IF Len(e.bytes) > streamThreshold
         THEN searchInFileStreaming(e.bytes, e.rel, regex)
         ELSE searchInFileBuffered(e.bytes, e.rel, regex)

\* The lines of the contents the two searches are compared on: short lines
\* with and without a match, a line ending in '\r', and lines of the lengths
\* around the two token limits.
SearchLines ==
    { <<>>, B(<<"a">>), B(<<"b">>), B(<<"a","a","b">>), B(<<"a","b">>) \o <<13>>,
      Rep(maxScanTokenSize - 1, 97), Rep(maxScanTokenSize, 97),
      Rep(streamMaxTokenSize - 1, 97), Rep(streamMaxTokenSize, 97) }

\* The lines joined, each followed by '\n', the last one only when closed.
RECURSIVE joinLines(_, _)
joinLines(ls, closed) ==
    IF ls = <<>> THEN <<>>
    ELSE IF Len(ls) = 1 THEN (IF closed THEN ls[1] \o <<NL>> ELSE ls[1])
    ELSE ls[1] \o <<NL>> \o joinLines(Tail(ls), closed)

SearchContents ==
    { joinLines(ls, closed) :
        ls \in UNION {[1..n -> SearchLines] : n \in 0..MaxSearchLines},
        closed \in BOOLEAN }

\* The patterns the two searches are compared on.
SearchPatterns ==
    << <<"a">>, <<"a","+","b">>, <<"(","?","i",")","B">> >>

SearchPath == <<"f",".","g","o">>

NoResult == [err |-> FALSE, matches |-> <<>>]

NoSearch ==
    [b |-> NoResult, s |-> NoResult, content |-> <<>>,
     pc |-> "idle", pat |-> 0, sDone |-> FALSE, bDone |-> FALSE]

\* A content and a compiled pattern are chosen for the two searches.
SearchOpen ==
    /\ sr.pc = "idle"
    /\ \E c \in SearchContents, i \in 1..Len(SearchPatterns) :
          sr' = [NoSearch EXCEPT !.pc = "open", !.content = c, !.pat = i]
    /\ UNCHANGED <<scanVars, lcVars, anVars, cliVars, igVars, fnVars, gitVars>>

\* searchInFileStreaming on the content.
SearchStreaming ==
    /\ sr.pc = "open"
    /\ ~sr.sDone
    /\ sr' = [sr EXCEPT !.sDone = TRUE,
                        !.s = searchInFileStreaming(sr.content, SearchPath,
                                                    Compile(SearchPatterns[sr.pat]))]
    /\ UNCHANGED <<scanVars, lcVars, anVars, cliVars, igVars, fnVars, gitVars>>

\* The buffered branch of searchInFile on the content.
SearchBuffered ==
    /\ sr.pc = "open"
    /\ ~sr.bDone
    /\ sr' = [sr EXCEPT !.bDone = TRUE,
                        !.b = searchInFileBuffered(sr.content, SearchPath,
                                                   Compile(SearchPatterns[sr.pat]))]
    /\ UNCHANGED <<scanVars, lcVars, anVars, cliVars, igVars, fnVars, gitVars>>

\* Both searches have returned.
SearchClose ==
    /\ sr.pc = "open"
    /\ sr.sDone /\ sr.bDone
    /\ sr' = NoSearch
    /\ UNCHANGED <<scanVars, lcVars, anVars, cliVars, igVars, fnVars, gitVars>>

hasValidExtension(path, extensions) ==
    IF Len(extensions) = 0 THEN TRUE
    ELSE \E i \in 1..Len(extensions) : ToLower(Ext(path)) = ToLower(extensions[i])

\* shouldProcessFileForSearch without the look at the first bytes.
shouldProcessFileForSearch_NoTextCheck(e, extensions) ==
    IF shouldIgnore(e.rel) THEN FALSE
    ELSE IF ~hasValidExtension(AbsPath(e), extensions) THEN FALSE
    ELSE IF e.fail \in {"open", "firstRead"} \/ e.dir \/ e.bytes = <<>> THEN FALSE
    ELSE TRUE

\* shouldProcessFileForSearch: os.Open or the first Read fails on a file
\* that cannot be opened, on a directory and on an empty file.
shouldProcessFileForSearch(e, extensions) ==
    IF shouldIgnore(e.rel) THEN FALSE
    ELSE IF ~hasValidExtension(AbsPath(e), extensions) THEN FALSE
    ELSE IF e.fail \in {"open", "firstRead"} \/ e.dir \/ e.bytes = <<>> THEN FALSE
    ELSE \A i \in 1..Min(FirstBytesSize, Len(e.bytes)) : e.bytes[i] # NUL

\* "SkipDir" for a directory whose path contains ".git", "nil" otherwise.
handleSearchSkipConditions(e) ==
    IF shouldSkipPath(AbsPath(e))
    THEN (IF e.dir THEN "SkipDir" ELSE "nil")
    ELSE "nil"

\* processSearchFile: what it returns, and the matches it appends.
processSearchFile(e, regex, extensions) ==
    IF ~shouldProcessFileForSearch(e, extensions)
    THEN [res |-> "nil", matches |-> <<>>]
    ELSE LET searched(r) ==
                 IF r.err THEN [res |-> "err", matches |-> <<>>]
                 ELSE [res |-> "nil", matches |-> r.matches]
         IN  searched(searchInFile(e, regex))

processSearchPath(e, err, regex, extensions) ==
    IF err THEN [res |-> "err", matches |-> <<>>]
    ELSE LET skipped(res) ==
                 IF res # "nil" THEN [res |-> res, matches |-> <<>>]
                 ELSE processSearchFile(e, regex, extensions)
         IN  skipped(handleSearchSkipConditions(e))

\* filepath.Walk with processSearchPath, from entry i on; Walk hands the
\* walk function an error at entry failAt (0: at none).  visited is the
\* number of entries the walk function was called for.
RECURSIVE searchWalk(_, _, _, _)
searchWalk(i, failAt, regex, extensions) ==
    IF i > Len(tree) THEN [err |-> FALSE, matches |-> <<>>, visited |-> 0]
    ELSE LET then(r, t) ==
                 [err |-> t.err, matches |-> r.matches \o t.matches,
                  visited |-> 1 + t.visited]
             called(r) ==
                 IF r.res = "err" THEN [err |-> TRUE, matches |-> <<>>, visited |-> 1]
                 ELSE then(r, searchWalk(walkNext(tree, i, r.res), failAt, regex,
                                         extensions))
         IN  called(processSearchPath(tree[i], i = failAt, regex, extensions))

\* SearchInFiles that walks with whatever Compile returned and reports the
\* compile error afterwards.
SearchInFiles_CompileLate(pattern, extensions, failAt) ==
    LET walked(c, w) == IF c.err \/ w.err THEN [w EXCEPT !.err = TRUE] ELSE w
        compiled(c) == walked(c, searchWalk(1, failAt, c, extensions))
    IN  compiled(Compile(pattern))

SearchInFiles(pattern, extensions, failAt) ==
    LET walked(w) == IF w.err THEN [w EXCEPT !.matches = <<>>] ELSE w
        compiled(c) ==
            IF c.err THEN [err |-> TRUE, matches |-> <<>>, visited |-> 0]
            ELSE walked(searchWalk(1, failAt, c, extensions))
    IN  compiled(Compile(pattern))

-----------------------------------------------------------------------------
(* The security analyzer. *)

\* A finding.  The slice of findings is a set here (its order follows Go's
\* map iteration); pat and k tell apart the findings of one line.
Issue(rule, file, line, severity, pat, k) ==
    [k |-> k, File |-> file, Line |-> line, pat |-> pat,
     Rule |-> rule, Severity |-> severity]

\* compilePatterns: the patterns that compile, in their order.
RECURSIVE compilePatterns(_)
compilePatterns(patterns) ==
    IF patterns = <<>> THEN <<>>
    ELSE LET kept(c) == IF c.err THEN <<>> ELSE <<c>>
         IN  kept(Compile(Head(patterns))) \o compilePatterns(Tail(patterns))

\* filepath.Dir of a relative path
Dir(s) == IF LastSlash(s) = 0 THEN <<".">> ELSE SubSeq(s, 1, LastSlash(s) - 1)

\* strings.Split(s, "/"), as a set of parts
Parts(s) ==
    {SubSeq(s, x[1], x[2]) : x \in
        {y \in (1..(Len(s) + 1)) \X (0..Len(s)) :
            /\ y[1] <= y[2] + 1
            /\ (y[1] = 1 \/ s[y[1] - 1] = "/")
            /\ (y[2] = Len(s) \/ s[y[2] + 1] = "/")
            /\ \A n \in y[1]..y[2] : s[n] # "/"}}

hasTestFilePattern(filePath) ==
    LET fileName == ToLower(Base(filePath))
        testPatterns == {<<"_","t","e","s","t",".","g","o">>, <<"t","e","s","t","_">>}
    IN  \E pattern \in testPatterns :
            HasSuffix(fileName, pattern) \/ HasPrefix(fileName, pattern)

isInTestDirectory(filePath) ==
    LET dirPath == ToLower(Dir(filePath))
        testDirs == {<<"t","e","s","t">>,
                     <<"t","e","s","t","s">>,
                     <<"t","e","s","t","i","n","g">>,
                     <<"_","_","t","e","s","t","s","_","_">>,
                     <<"s","p","e","c">>,
                     <<"s","p","e","c","s">>,
                     <<"t","e","s","t","d","a","t","a">>,
                     <<"t","e","s","t","-","d","a","t","a">>,
                     <<"f","i","x","t","u","r","e","s">>,
                     <<"m","o","c","k","s">>,
                     <<"m","o","c","k">>}
    IN  Parts(dirPath) \cap testDirs # {}

isTestFile(filePath) == hasTestFilePattern(filePath) \/ isInTestDirectory(filePath)

isSecurityAnalyzerFile(filePath) ==
    \/ Contains(filePath, <<"s","e","c","u","r","i","t","y",".","g","o">>)
    \/ Contains(filePath, <<"a","n","a","l","y","z","e","r","/","s","e","c","u","r","i","t","y">>)
    \/ Contains(filePath, <<"s","e","c","u","r","i","t","y","_","t","e","s","t",".","g","o">>)

isAllowedSecret(content) ==
    \E i \in 1..Len(secCfg.AllowedSecrets) :
        Contains(LowerBytes(content), LowerBytes(secCfg.AllowedSecrets[i]))

determineSecretSeverity(content) ==
    LET c == LowerBytes(content)
        highRiskPatterns ==
            << B(<<"p","r","i","v","a","t","e","_","k","e","y">>),
               B(<<"p","r","i","v","a","t","e"," ","k","e","y">>),
               B(<<"s","e","c","r","e","t","_","k","e","y">>),
               B(<<"s","e","c","r","e","t"," ","k","e","y">>),
               B(<<"p","a","s","s","w","o","r","d","[",":","=","]">>),
               B(<<"p","a","s","s","w","o","r","d"," ","=">>),
               B(<<"p","a","s","s","w","o","r","d",":">>),
               B(<<"t","o","k","e","n","[",":","=","]">>),
               B(<<"t","o","k","e","n"," ","=">>),
               B(<<"t","o","k","e","n",":">>) >>
        mediumRiskPatterns ==
            << B(<<"a","p","i","_","k","e","y">>),
               B(<<"a","p","i"," ","k","e","y">>),
               B(<<"a","c","c","e","s","s","_","k","e","y">>),
               B(<<"a","c","c","e","s","s"," ","k","e","y">>),
               B(<<"a","p","i","k","e","y","[",":","=","]">>),
               B(<<"a","p","i","k","e","y"," ","=">>),
               B(<<"a","p","i","k","e","y",":">>) >>
    IN  IF \E i \in 1..Len(highRiskPatterns) : Contains(c, highRiskPatterns[i])
        THEN "high"
        ELSE IF \E i \in 1..Len(mediumRiskPatterns) : Contains(c, mediumRiskPatterns[i])
             THEN "medium"
             ELSE "low"

\* The extensions the secret scan reads.
secretExtensions ==
    << <<".","g","o">>,
       <<".","m","o","d">>,
       <<".","s","u","m">>,
       <<".","y","a","m","l">>,
       <<".","y","m","l">>,
       <<".","j","s","o","n">>,
       <<".","e","n","v">> >>

shouldProcessCachedFile(file) ==
    IF (\A i \in 1..Len(secretExtensions) : file.Extension # secretExtensions[i])
           /\ file.Extension # <<>>
    THEN FALSE
    ELSE IF isTestFile(file.RelativePath) \/ isSecurityAnalyzerFile(file.RelativePath)
         THEN FALSE
         ELSE file.IsText

\* readFileContent: os.Open and io.ReadAll of the path of a record.
readFileContent(file) ==
    LET e == EntryAt(file.RelativePath)
    IN  CASE e.fail \in {"open", "cacheOpen"} -> [bytes |-> <<>>, err |-> TRUE]
          [] e.fail = "cacheRead" -> [bytes |-> Prefix(e.bytes, e.good), err |-> TRUE]
          [] OTHER -> [bytes |-> e.bytes, err |-> FALSE]

\* getFileContentForScanning: the content, and whether there is one to scan.
getFileContentForScanning(file) ==
    IF Len(file.Content) > 0 THEN [bytes |-> file.Content, nil |-> FALSE]
    ELSE LET r == readFileContent(file)
         IN  IF r.err THEN [bytes |-> <<>>, nil |-> TRUE]
             ELSE [bytes |-> r.bytes, nil |-> FALSE]

searchSecretsInContent(content, filePath) ==
    LET lines == splitLines(content, <<>>)
    IN  UNION { UNION {
            LET found(matches) ==
                    { Issue("secret-detection", filePath, lineNum,
                            determineSecretSeverity(matches[k]), pi, k) :
                        k \in {n \in 1..Len(matches) : ~isAllowedSecret(matches[n])} }
            IN  found(FindAllString(compiledPatterns[pi], lines[lineNum]))
            : lineNum \in 1..Len(lines) } : pi \in 1..Len(compiledPatterns) }

\* scanSecretsFromCache, on what the map of GetCachedFiles shows.
scanSecretsFromCache(cachedFiles) ==
    UNION { LET file == cachedFiles[x]
                content == getFileContentForScanning(file)
            IN  IF ~shouldProcessCachedFile(file) \/ content.nil THEN {}
                ELSE searchSecretsInContent(content.bytes, file.RelativePath)
            : x \in DOMAIN cachedFiles }

isSuspiciousFile(filePath) ==
    LET fileName == Base(filePath)
    IN  \E i \in 1..Len(secCfg.SuspiciousFiles) :
            \/ Match(secCfg.SuspiciousFiles[i], fileName)
            \/ Match(secCfg.SuspiciousFiles[i], filePath)

\* A variant that looks at the extension before the list of critical names.
determineSuspiciousFileSeverity_ExtensionFirst(filePath) ==
    LET fileName == ToLower(Base(filePath))
        criticalFiles == << <<".","e","n","v">>,
                         <<"i","d","_","r","s","a">>,
                         <<"i","d","_","d","s","a">>,
                         <<"p","r","i","v","a","t","e",".","k","e","y">>,
                         <<"s","e","r","v","e","r",".","k","e","y">> >>
        highRiskExtensions == << <<".","p","e","m">>,
                              <<".","k","e","y">>,
                              <<".","p","1","2">>,
                              <<".","p","f","x">>,
                              <<".","j","k","s">> >>
        ext == ToLower(Ext(filePath))
    IN  IF \E i \in 1..Len(highRiskExtensions) : ext = highRiskExtensions[i]
        THEN "high"
        ELSE IF \E i \in 1..Len(criticalFiles) :
                    fileName = criticalFiles[i] \/ HasSuffix(fileName, criticalFiles[i])
             THEN "critical"
             ELSE "medium"

determineSuspiciousFileSeverity(filePath) ==
    LET fileName == ToLower(Base(filePath))
        criticalFiles == << <<".","e","n","v">>,
                         <<"i","d","_","r","s","a">>,
                         <<"i","d","_","d","s","a">>,
                         <<"p","r","i","v","a","t","e",".","k","e","y">>,
                         <<"s","e","r","v","e","r",".","k","e","y">> >>
        highRiskExtensions == << <<".","p","e","m">>,
                              <<".","k","e","y">>,
                              <<".","p","1","2">>,
                              <<".","p","f","x">>,
                              <<".","j","k","s">> >>
        ext == ToLower(Ext(filePath))
    IN  IF \E i \in 1..Len(criticalFiles) :
               fileName = criticalFiles[i] \/ HasSuffix(fileName, criticalFiles[i])
        THEN "critical"
        ELSE IF \E i \in 1..Len(highRiskExtensions) : ext = highRiskExtensions[i]
             THEN "high"
             ELSE "medium"

\* The loop of scanForSuspiciousFiles over relative paths.
suspiciousIssues(paths) ==
    { Issue("suspicious-file-detection", x, 0, determineSuspiciousFileSeverity(x), 0, 0) :
        x \in {y \in paths : ~isTestFile(y) /\ isSuspiciousFile(y)} }

\* processSecretMatch: the finding of a match, if it gives one.
processSecretMatch(match, pi) ==
    IF isTestFile(match.File) \/ isSecurityAnalyzerFile(match.File) THEN {}
    ELSE IF isAllowedSecret(match.Content) THEN {}
    ELSE {Issue("secret-detection", match.File, match.Line,
                determineSecretSeverity(match.Content), pi, 1)}

\* scanSecretsWithPatterns: one SearchInFiles call per configured pattern;
\* Walk hands an error to call fk at entry fj (fk = 0: to none).
scanSecretsWithPatterns(fk, fj) ==
    LET patterns == secCfg.SecretPatterns
        searched(found) ==
            IF \E i \in 1..Len(patterns) : found[i].err
            THEN [err |-> TRUE, issues |-> {}]
            ELSE [err |-> FALSE,
                  issues |-> UNION {UNION {processSecretMatch(found[i].matches[n], i) :
                                              n \in 1..Len(found[i].matches)} :
                                       i \in 1..Len(patterns)}]
    IN  searched([i \in 1..Len(patterns) |->
                     SearchInFiles(patterns[i], secretExtensions,
                                   IF i = fk THEN fj ELSE 0)])

\* A repository without a .gitignore: an environment file, a source file
\* with a password assignment, a test file with the same line, a key file.
SecretLine == B(<<"p","a","s","s","w","o","r","d"," ","="," ","\"","1","2","3","4","5","6","7","8","\"">>)

Tree5 ==
    << D(<<>>),
       F(<<".","e","n","v">>, B(<<"K","=","v">>) \o <<NL>>),
       F(<<"a",".","g","o">>, SecretLine \o <<NL>>),
       F(<<"f","o","o","_","t","e","s","t",".","g","o">>, SecretLine \o <<NL>>),
       F(<<"s","e","r","v","e","r",".","k","e","y">>, B(<<"k">>) \o <<NL>>) >>

Rules5 == <<>>

\* The same repository with a .gitignore of one rule.
Tree6 ==
    << D(<<>>),
       F(<<".","e","n","v">>, B(<<"K","=","v">>) \o <<NL>>),
       F(<<".","g","i","t","i","g","n","o","r","e">>, B(<<"*",".","l","o","g">>) \o <<NL>>),
       F(<<"a",".","g","o">>, SecretLine \o <<NL>>),
       F(<<"f","o","o","_","t","e","s","t",".","g","o">>, SecretLine \o <<NL>>),
       F(<<"s","e","r","v","e","r",".","k","e","y">>, B(<<"k">>) \o <<NL>>) >>

Rules6 == << <<"*",".","l","o","g">> >>

SecurityScenarios ==
    { [tree |-> Tree5, rules |-> Rules5],
      [tree |-> Tree6, rules |-> Rules6] }

\* A repository searched for the password line, with a .gitignore of one
\* rule.  A source file with an upper-case extension and the line as its
\* third and as its unterminated fourth, a binary source file, an ignored
\* log file, a text file in a directory, a source file above the streaming
\* threshold with the line as its second, a source file that cannot be
\* opened, and a source file whose only NUL byte lies behind the inspected
\* prefix.
Tree7 ==
    << D(<<>>),
       F(<<"A",".","G","O">>, B(<<"x">>) \o <<NL>> \o B(<<"y">>) \o <<NL>> \o SecretLine \o <<NL>> \o SecretLine),
       F(<<"b",".","g","o">>, <<NUL>> \o SecretLine \o <<NL>>),
       F(<<"c",".","l","o","g">>, SecretLine \o <<NL>>),
       D(<<"d">>),
       F(<<"d","/","e",".","t","x","t">>, SecretLine \o <<NL>>),
       F(<<"f",".","g","o">>, B(<<"x">>) \o <<NL>> \o SecretLine \o <<NL>> \o Rep(streamThreshold - Len(SecretLine), 97)),
       U(<<"g",".","g","o">>, SecretLine \o <<NL>>),
       F(<<"n",".","g","o">>, B(<<"x">>) \o <<NL, NUL>> \o SecretLine \o <<NL>>) >>

Rules7 == << <<"*",".","l","o","g">> >>

\* No .gitignore.  Between two source files with the password line, a source
\* file of one line too long for bufio.Scanner.
Tree8 ==
    << D(<<>>),
       F(<<"a",".","g","o">>, SecretLine \o <<NL>>),
       F(<<"m","i","n",".","g","o">>, Rep(maxScanTokenSize, 97) \o <<NL>>),
       F(<<"z",".","g","o">>, SecretLine \o <<NL>>) >>

Rules8 == <<>>

SearchScenarios ==
    SecurityScenarios \cup
    { [tree |-> Tree7, rules |-> Rules7],
      [tree |-> Tree8, rules |-> Rules8] }

\* No .gitignore.  A configuration file without an extension that holds the
\* password line, and a source file with one line that names a private key
\* twice.
Tree9 ==
    << D(<<>>),
       F(<<"c","o","n","f">>, SecretLine \o <<NL>>),
       F(<<"t","w","i","c","e",".","g","o">>, B(<<"p","r","i","v","a","t","e","k","e","y"," ","p","r","i","v","a","t","e","k","e","y">>) \o <<NL>>) >>

Rules9 == <<>>

\* The default configuration, and one with a pattern that does not compile
\* between two of the default patterns.
SecurityConfigs ==
    { DefaultSecurity,
      [DefaultSecurity EXCEPT !.SecretPatterns =
          <<DefaultSecretPatterns[1], <<"[","i","n","v","a","l","i","d">>, DefaultSecretPatterns[2]>>] }

\* What Analyze or SearchInFiles returned: k is "none", "err", "secrets" (the
\* secret scan is done), "issues" or "matches"; via is the path the secret
\* scan took ("cache" or "fallback"), sus the path of the suspicious-file
\* scan, files the relative paths of the cached files (or of ScanFiles'
\* result) the last scan went through, and walkErr tells that a directory
\* walk of the fallback was handed an error.
NoOut ==
    [k |-> "none", files |-> {}, matches |-> <<>>, visited |-> 0, issues |-> {}, via |-> "",
     sus |-> "", walkErr |-> FALSE]

\* Analyze begins with the GetCachedFiles call of scanForSecrets.
CallAnalyze(p) ==
    Begin(p, <<Frame("GetCachedFiles", "start"), Frame("Analyze", 1)>>, 1)

\* Analyze goes on after a nested call: scanForSecrets (1), then
\* scanForSuspiciousFiles after its GetCachedFiles (2) or its ScanFiles (3).
\* In the fallback of scanForSecrets no walk of SearchInFiles fails, or one
\* does: every walk error gives the same result, the one at the root in the
\* first call stands for all.
\* The relative paths of the records GetCachedFiles handed to the caller.
CachedPaths(p) == {heap[ret[p].m[x]].RelativePath : x \in DOMAIN ret[p].m}

Analyze(p) ==
    /\ stack[p] # <<>>
    /\ Top(p).op = "Analyze"
    /\ CASE Top(p).st = 1 ->
              IF DOMAIN ret[p].m # {}
              THEN /\ out' = [out EXCEPT ![p] =
                          [NoOut EXCEPT !.k = "secrets", !.via = "cache",
                                        !.files = CachedPaths(p),
                                        !.issues = scanSecretsFromCache(View(ret[p].m))]]
                   /\ Continue(p, <<Frame("GetCachedFiles", "start")>>, 2)
              ELSE \E f \in {<<0, 0>>, <<1, 1>>} :
                      \E r \in {scanSecretsWithPatterns(f[1], f[2])} :
                          IF r.err
                          THEN /\ out' = [out EXCEPT ![p] =
                                      [NoOut EXCEPT !.k = "err", !.via = "fallback",
                                                    !.walkErr = (f[1] # 0)]]
                               /\ Return(p, Ret("err"))
                          ELSE /\ out' = [out EXCEPT ![p] =
                                      [NoOut EXCEPT !.k = "secrets", !.via = "fallback",
                                                    !.issues = r.issues]]
                               /\ Continue(p, <<Frame("GetCachedFiles", "start")>>, 2)
         [] Top(p).st = 2 ->
              IF DOMAIN ret[p].m # {}
              THEN /\ out' = [out EXCEPT ![p].k = "issues", ![p].sus = "cache",
                                         ![p].files = CachedPaths(p),
                                         ![p].issues = @ \cup suspiciousIssues(CachedPaths(p))]
                   /\ Return(p, Ret("issues"))
              ELSE /\ Continue(p, <<Frame("GetCachedFiles", "start"), Frame("ScanFiles", 1)>>, 3)
                   /\ UNCHANGED out
         [] OTHER ->
              IF ret[p].k = "err"
              THEN /\ out' = [out EXCEPT ![p].k = "err", ![p].issues = {}, ![p].sus = "fallback"]
                   /\ Return(p, Ret("err"))
              ELSE /\ out' = [out EXCEPT ![p].k = "issues", ![p].sus = "fallback",
                                         ![p].files = {f.RelativePath : f \in ret[p].infos},
                                         ![p].issues = @ \cup suspiciousIssues(
                                             {f.RelativePath : f \in ret[p].infos})]
                   /\ Return(p, Ret("issues"))
    /\ UNCHANGED <<tree, gitIgnores, cacheFiles, mapObj, heap, writer, readers,
                   pos, werr, nScans, hist, sawErr, secCfg, compiledPatterns>>
    /\ UNCHANGED <<lcVars, srVars, cliVars, igVars, fnVars, gitVars>>

\* The patterns and the extensions callers search with.
SearchArgs ==
    { [pattern |-> DefaultSecretPatterns[2], exts |-> << <<".","g","o">> >>],
      [pattern |-> DefaultSecretPatterns[2], exts |-> << <<".","G","o">>, <<".","m","o","d">> >>],
      [pattern |-> DefaultSecretPatterns[2], exts |-> <<>>],
      [pattern |-> <<"p","a","s","s","w","o","r","d">>, exts |-> <<>>],
      [pattern |-> <<"[","i","n","v","a","l","i","d">>, exts |-> <<>>],
      [pattern |-> <<"*","a">>, exts |-> << <<".","g","o">> >>] }

\* A caller calls SearchInFiles: the whole call, with a walk error at entry
\* failAt of the walk (0: at none).
SearchInFiles_Call(p) ==
    /\ stack[p] = <<>>
    /\ \E a \in SearchArgs, failAt \in 0..Len(tree) :
          \E r \in {SearchInFiles(a.pattern, a.exts, failAt)} :
              out' = [out EXCEPT ![p] =
                  [NoOut EXCEPT !.k = IF r.err THEN "err" ELSE "matches",
                                !.matches = r.matches, !.visited = r.visited,
                                !.via = IF Compile(a.pattern).err THEN "invalid" ELSE "valid"]]
    /\ UNCHANGED <<scanVars, secCfg, compiledPatterns>>
    /\ UNCHANGED <<lcVars, srVars, cliVars, igVars, fnVars, gitVars>>

\* SearchInFiles is called on its own: its arguments, the entry of the walk
\* error, and what it returned.
SearchInFiles_Direct ==
    /\ \E a \in SearchArgs, failAt \in 0..Len(tree) :
          call' = [res |-> SearchInFiles(a.pattern, a.exts, failAt), fn |-> "SearchInFiles",
                   arg |-> <<a.pattern, a.exts, failAt>>]
    /\ UNCHANGED <<scanVars, lcVars, anVars, srVars, cliVars, igVars, gitVars>>

-----------------------------------------------------------------------------
(* The severity of a matched text, called directly. *)

\* strings.ToUpper on bytes: the texts in capitals.
UpperBytes(t) == [i \in 1..Len(t) |-> IF t[i] \in 97..122 THEN t[i] - 32 ELSE t[i]]

\* The words of the matched texts and what stands between a word and its
\* value.
SeverityWords ==
    { <<"p","r","i","v","a","t","e","_","k","e","y">>,
      <<"p","r","i","v","a","t","e"," ","k","e","y">>,
      <<"s","e","c","r","e","t","_","k","e","y">>,
      <<"s","e","c","r","e","t"," ","k","e","y">>,
      <<"p","a","s","s","w","o","r","d">>,
      <<"t","o","k","e","n">>,
      <<"a","p","i","_","k","e","y">>,
      <<"a","p","i"," ","k","e","y">>,
      <<"a","c","c","e","s","s","_","k","e","y">>,
      <<"a","c","c","e","s","s"," ","k","e","y">>,
      <<"a","p","i","k","e","y">>,
      <<"s","o","m","e","_","c","o","n","f","i","g">> }

SeveritySeparators ==
    { <<" ","="," ">>, <<"=">>, <<":"," ">>, <<" ",":"," ">>, <<":">>, <<" ">>, <<"[",":","=","]">> }

\* The matched texts: the contents of TestSecurityAnalyzer_DetermineSecretSeverity,
\* one of them without spaces, and every word with every separator, in small
\* letters and in capitals.
SeverityTexts ==
    { B(<<"p","r","i","v","a","t","e","_","k","e","y"," ","="," ","v","a","l","u","e">>),
      B(<<"p","a","s","s","w","o","r","d"," ","="," ","s","e","c","r","e","t","1","2","3">>),
      B(<<"s","e","c","r","e","t","_","k","e","y"," ","="," ","a","b","c","1","2","3">>),
      B(<<"a","p","i","_","k","e","y"," ","="," ","t","e","s","t","_","v","a","l","u","e">>),
      B(<<"a","c","c","e","s","s","_","k","e","y"," ","="," ","v","a","l","u","e">>),
      B(<<"s","o","m","e","_","c","o","n","f","i","g"," ","="," ","v","a","l","u","e">>),
      B(<<"p","a","s","s","w","o","r","d","=","s","e","c","r","e","t","1","2","3">>) }
    \cup { B(w \o sep \o <<"v">>) : w \in SeverityWords, sep \in SeveritySeparators }
    \cup { UpperBytes(B(w \o sep \o <<"v">>)) : w \in SeverityWords, sep \in SeveritySeparators }

\* determineSecretSeverity is called with a matched text.
determineSecretSeverity_Call ==
    /\ \E content \in SeverityTexts :
          call' = [res |-> determineSecretSeverity(content), fn |-> "determineSecretSeverity",
                   arg |-> content]
    /\ UNCHANGED <<scanVars, lcVars, anVars, srVars, cliVars, igVars, gitVars>>

-----------------------------------------------------------------------------
(* The suppression of a secret match, called directly. *)

\* The configuration of TestSecurityAnalyzer_IsAllowedSecret.
AllowedSecretsOfTest ==
    [SecretPatterns |-> <<>>,
     SuspiciousFiles |-> <<>>,
     AllowedSecrets |-> <<B(<<"t","e","s","t","_","k","e","y">>), B(<<"e","x","a","m","p","l","e","_","p","a","s","s","w","o","r","d">>)>>]

\* The files of the matches: sources, test files by name and by directory,
\* the analyzer's own files, and files of a user with names close to these.
SuppressPaths ==
    { <<"m","a","i","n",".","g","o">>,
      <<"m","a","i","n","_","t","e","s","t",".","g","o">>,
      <<"t","e","s","t","_","h","e","l","p","e","r",".","g","o">>,
      <<"T","E","S","T","_","m",".","g","o">>,
      <<"t","e","s","t","s","/","m",".","g","o">>,
      <<"s","r","c","/","t","e","s","t","/","m",".","g","o">>,
      <<"T","E","S","T","S","/","m",".","g","o">>,
      <<"m","o","c","k","s","/","m",".","g","o">>,
      <<"t","e","s","t","i","n","g",".","g","o">>,
      <<"c","o","n","t","e","s","t","/","m",".","g","o">>,
      <<"l","a","t","e","s","t","_">>,
      <<"_","t","e","s","t",".","g","o","l","d",".","j","s","o","n">>,
      <<"i","n","t","e","r","n","a","l","/","a","n","a","l","y","z","e","r","/","s","e","c","u","r","i","t","y",".","g","o">>,
      <<"i","n","t","e","r","n","a","l","/","a","n","a","l","y","z","e","r","/","s","e","c","u","r","i","t","y","_","t","e","s","t",".","g","o">>,
      <<"p","k","g","/","w","e","b","s","e","c","u","r","i","t","y",".","g","o">>,
      <<"a","u","t","h","/","s","e","c","u","r","i","t","y",".","g","o">>,
      <<"d","e","p","l","o","y","/","a","n","a","l","y","z","e","r","/","s","e","c","u","r","i","t","y",".","y","a","m","l">> }

\* The matched texts: with an allowed secret in either case, and without.
SuppressTexts ==
    { B(<<"p","a","s","s","w","o","r","d"," ","="," ","x">>),
      B(<<"t","e","s","t","_","k","e","y"," ","="," ","1">>),
      B(<<"T","E","S","T","_","K","E","Y"," ","="," ","1">>),
      B(<<"E","x","a","m","p","l","e","_","P","a","s","s","w","o","r","d">>),
      B(<<"m","y","_","t","e","s","t","_","k","e","y","_","2">>),
      B(<<"t","e","s","t","k","e","y">>),
      B(<<"e","x","a","m","p","l","e"," ","p","a","s","s","w","o","r","d">>),
      B(<<"a","p","i","_","k","e","y"," ","="," ","v">>) }

\* processSecretMatch is called with a match of SearchInFiles.
processSecretMatch_Call ==
    /\ \E file \in SuppressPaths, content \in SuppressTexts :
          call' = [res |-> IF processSecretMatch([Content |-> content, File |-> file,
                                                   Line |-> 1, Pattern |-> <<>>], 1) = {}
                           THEN "nil" ELSE "issue", fn |-> "processSecretMatch",
                   arg |-> <<file, content>>]
    /\ UNCHANGED <<scanVars, lcVars, anVars, srVars, cliVars, igVars, gitVars>>

-----------------------------------------------------------------------------
(* The summary of a report: the health score and the grade. *)

\* calculateHealthScore, on the number of issues of each severity.
calculateHealthScore(issuesBySeverity) ==
    LET capped(score) == IF score < 0 THEN 0 ELSE score
    IN  capped(100 - issuesBySeverity["critical"] * 25
                   - issuesBySeverity["high"] * 15
                   - issuesBySeverity["medium"] * 8
                   - issuesBySeverity["low"] * 3)

calculateGrade(score) ==
    CASE score >= 90 -> "A"
      [] score < 90 /\ score >= 80 -> "B"
      [] score < 80 /\ score >= 70 -> "C"
      [] score < 70 /\ score >= 60 -> "D"
      [] OTHER -> "F"

\* calculateSummary: the issues are counted by severity, then scored and
\* graded.  The slice of issues is given by its number of issues of each
\* severity (the loop over it only counts).
calculateSummary(issuesBySeverity) ==
    LET graded(score) == [Score |-> score, Grade |-> calculateGrade(score)]
    IN  graded(calculateHealthScore(issuesBySeverity))

\* The reports that are summarised.
SummaryIssues == [{"low", "medium", "high", "critical"} -> 0..MaxPerSeverity]

\* runCheck summarises the issues of the report.
calculateSummary_Call ==
    /\ \E issuesBySeverity \in SummaryIssues :
          call' = [res |-> calculateSummary(issuesBySeverity), fn |-> "calculateSummary",
                   arg |-> issuesBySeverity]
    /\ UNCHANGED <<scanVars, lcVars, anVars, srVars, cliVars, igVars, gitVars>>

-----------------------------------------------------------------------------
(* The Repository: the cache of the batched git data. *)

\* A caller calls BatchGitOperations or InvalidateCache.
CallGit(p, op) ==
    /\ gitPc[p][2] = "idle"
    /\ gitCalls < MaxGitCalls
    /\ gitCalls' = gitCalls + 1
    /\ gitPc' = [gitPc EXCEPT ![p] = <<op, "start">>]
    /\ gitTouched' = [gitTouched EXCEPT ![p] = <<FALSE, FALSE>>]
    /\ UNCHANGED <<headRev, mu, cacheValid, batchedData, gitData, gitRet, gitFills>>
    /\ UNCHANGED <<scanVars, lcVars, anVars, srVars, cliVars, igVars, fnVars>>

CallBatchGitOperations(p) == CallGit(p, "BatchGitOperations")

CallInvalidateCache(p) == CallGit(p, "InvalidateCache")

\* r.cache.mu.Lock() of either operation.
GitLock(p) ==
    /\ gitPc[p][2] = "start"
    /\ mu = None
    /\ mu' = p
    /\ gitPc' = [gitPc EXCEPT ![p][2] = "locked"]
    /\ gitTouched' = [gitTouched EXCEPT ![p][1] = cacheValid /\ batchedData # 0]
    /\ UNCHANGED <<headRev, cacheValid, batchedData, gitData, gitRet, gitCalls, gitFills>>
    /\ UNCHANGED <<scanVars, lcVars, anVars, srVars, cliVars, igVars, fnVars>>

\* The call of p returns v; the deferred Unlock runs.
GitReturn(p, v) ==
    /\ mu' = None
    /\ gitPc' = [gitPc EXCEPT ![p] = <<"", "idle">>]
    /\ gitRet' = [gitRet EXCEPT ![p] = v]

\* BatchGitOperations that reads the repository whenever it is called.
BatchGitOperations_Check_AlwaysRead(p) ==
    /\ gitPc[p] = <<"BatchGitOperations", "locked">>
    /\ gitPc' = [gitPc EXCEPT ![p][2] = "head"]
    /\ UNCHANGED <<headRev, mu, cacheValid, batchedData, gitData, gitRet,
                   gitCalls, gitFills, gitTouched>>
    /\ UNCHANGED <<scanVars, lcVars, anVars, srVars, cliVars, igVars, fnVars>>

\* BatchGitOperations under the lock: the cached data are returned if the
\* cache is valid and holds them; otherwise the repository is read.
BatchGitOperations_Check(p) ==
    /\ gitPc[p] = <<"BatchGitOperations", "locked">>
    /\ IF cacheValid /\ batchedData # 0
       THEN /\ GitReturn(p, <<"data", batchedData>>)
            /\ UNCHANGED <<headRev, cacheValid, batchedData, gitData,
                           gitCalls, gitFills, gitTouched>>
       ELSE /\ gitPc' = [gitPc EXCEPT ![p][2] = "head"]
            /\ UNCHANGED <<headRev, mu, cacheValid, batchedData, gitData, gitRet,
                           gitCalls, gitFills, gitTouched>>
    /\ UNCHANGED <<scanVars, lcVars, anVars, srVars, cliVars, igVars, fnVars>>

\* r.repo.Head() fails: the error is returned and nothing is stored.
BatchGitOperations_HeadFails(p) ==
    /\ gitPc[p] = <<"BatchGitOperations", "head">>
    /\ gitTouched' = [gitTouched EXCEPT ![p][2] = TRUE]
    /\ GitReturn(p, <<"err", 0>>)
    /\ UNCHANGED <<headRev, cacheValid, batchedData, gitData, gitCalls, gitFills>>
    /\ UNCHANGED <<scanVars, lcVars, anVars, srVars, cliVars, igVars, fnVars>>

\* r.repo.Head() succeeds: a new BatchedGitData is filled from the
\* repository (the errors of the branches, the remotes and the status are
\* dropped), stored in the cache and returned.
BatchGitOperations_Store(p) ==
    /\ gitPc[p] = <<"BatchGitOperations", "head">>
    /\ gitTouched' = [gitTouched EXCEPT ![p][2] = TRUE]
    /\ gitData' = Append(gitData, headRev)
    /\ batchedData' = Len(gitData) + 1
    /\ cacheValid' = TRUE
    /\ gitFills' = gitFills + 1
    /\ GitReturn(p, <<"data", Len(gitData) + 1>>)
    /\ UNCHANGED <<headRev, gitCalls>>
    /\ UNCHANGED <<scanVars, lcVars, anVars, srVars, cliVars, igVars, fnVars>>

\* InvalidateCache under the lock.
InvalidateCache(p) ==
    /\ gitPc[p] = <<"InvalidateCache", "locked">>
    /\ cacheValid' = FALSE
    /\ batchedData' = 0
    /\ gitFills' = 0
    /\ GitReturn(p, <<"done", 0>>)
    /\ UNCHANGED <<headRev, gitData, gitCalls, gitTouched>>
    /\ UNCHANGED <<scanVars, lcVars, anVars, srVars, cliVars, igVars, fnVars>>

\* Somebody commits: HEAD points to a new revision.
Commit ==
    /\ headRev <= MaxCommits
    /\ headRev' = headRev + 1
    /\ UNCHANGED <<mu, cacheValid, batchedData, gitData, gitPc, gitRet,
                   gitCalls, gitFills, gitTouched>>
    /\ UNCHANGED <<scanVars, lcVars, anVars, srVars, cliVars, igVars, fnVars>>

-----------------------------------------------------------------------------
(* The check command: the exit code. *)

\* The values given to --severity, and the severities of the issues of a
\* report ("" is an issue whose Severity was never set).
Thresholds == {"low", "medium", "high", "critical", "HIGH", "", "severe"}

Severities == {"low", "medium", "high", "critical", ""}

\* The issues of a report, by their severities.
IssueLists == UNION {[1..n -> Severities] : n \in 0..MaxIssues}

\* severityOrder[s]: a Go map gives 0 for a key it does not hold.
severityOrder(s) ==
    CASE s = "low" -> 1
      [] s = "medium" -> 2
      [] s = "high" -> 3
      [] s = "critical" -> 4
      [] OTHER -> 0

\* filterIssuesBySeverity with > in place of >=.
filterIssuesBySeverity_StrictlyAbove(issues, threshold) ==
    LET exists == threshold \in {"low", "medium", "high", "critical"}
        thresholdLevel == IF exists THEN severityOrder(threshold) ELSE 1
    IN  SelectSeq(issues, LAMBDA sev : severityOrder(sev) > thresholdLevel)

filterIssuesBySeverity(issues, threshold) ==
    LET exists == threshold \in {"low", "medium", "high", "critical"}
        thresholdLevel == IF exists THEN severityOrder(threshold) ELSE 1
    IN  SelectSeq(issues, LAMBDA sev : severityOrder(sev) >= thresholdLevel)

\* handleFailOnIssues: TRUE when it calls os.Exit(1).
handleFailOnIssues(failOnIssues, severityThreshold, issues) ==
    IF failOnIssues /\ Len(issues) > 0
    THEN Len(filterIssuesBySeverity(issues, severityThreshold)) > 0
    ELSE FALSE

\* The flags at their defaults, no report yet.
NoCheck ==
    [pc |-> "idle", issues |-> <<>>, failOnIssues |-> FALSE,
     severityThreshold |-> "low", exit |-> 0]

\* runCheck with the flags given, once the report is made and printed:
\* handleFailOnIssues ends the process with code 1, or runCheck returns nil.
runCheck ==
    /\ \E f \in BOOLEAN, thr \in Thresholds, iss \in IssueLists :
          cli' = [pc |-> "done", issues |-> iss, failOnIssues |-> f,
                  severityThreshold |-> thr,
                  exit |-> IF handleFailOnIssues(f, thr, iss) THEN 1 ELSE 0]
    /\ UNCHANGED <<scanVars, lcVars, anVars, srVars, igVars, fnVars, gitVars>>

-----------------------------------------------------------------------------
(* The working tree changes between scans. *)

\* The files that come and go, in filepath.Walk's order, and the rule loaded.
RescanFiles ==
    << F(<<".","g","i","t","k","e","e","p">>, <<>>),
       F(<<"a",".","g","o">>, <<97,10>>),
       F(<<"b",".","l","o","g">>, <<97,10>>),
       F(<<"z",".","g","o">>, <<97,10>>) >>

RescanRules == << <<"*",".","l","o","g">> >>

\* The relative paths of the files of the tree.
FilesOf(t) == {t[j].rel : j \in {i \in 1..Len(t) : ~t[i].dir}}

\* The tree with the given files at its root.
TreeOf(rels) == <<D(<<>>)>> \o SelectSeq(RescanFiles, LAMBDA e : e.rel \in rels)

\* A file is created in the working tree while no traversal is under way.
FileAdded ==
    /\ writer = None
    /\ \E i \in 1..Len(RescanFiles) :
          /\ RescanFiles[i].rel \notin FilesOf(tree)
          /\ tree' = TreeOf(FilesOf(tree) \cup {RescanFiles[i].rel})
    /\ UNCHANGED <<gitIgnores, cacheFiles, mapObj, heap, writer, readers,
                   stack, ret, pos, werr, nScans, hist, sawErr>>
    /\ UNCHANGED <<lcVars, anVars, srVars, cliVars, igVars, fnVars, gitVars>>

\* A file is removed from the working tree while no traversal is under way.
FileRemoved ==
    /\ writer = None
    /\ \E x \in FilesOf(tree) : tree' = TreeOf(FilesOf(tree) \ {x})
    /\ UNCHANGED <<gitIgnores, cacheFiles, mapObj, heap, writer, readers,
                   stack, ret, pos, werr, nScans, hist, sawErr>>
    /\ UNCHANGED <<lcVars, anVars, srVars, cliVars, igVars, fnVars, gitVars>>

-----------------------------------------------------------------------------
(* The specifications. *)

ScanInit ==
    /\ cacheFiles = 0
    /\ mapObj = (0 :> EmptyMap)
    /\ heap = EmptyMap
    /\ writer = None
    /\ readers = {}
    /\ stack = [p \in Procs |-> <<>>]
    /\ ret = [p \in Procs |-> Ret("none")]
    /\ pos = [p \in Procs |-> 0]
    /\ werr = [p \in Procs |-> FALSE]
    /\ nScans = 0
    /\ hist = <<>>
    /\ sawErr = [p \in Procs |-> FALSE]

\* No security analyzer has been made.
anNone ==
    /\ secCfg = [SecretPatterns |-> <<>>, SuspiciousFiles |-> <<>>, AllowedSecrets |-> <<>>]
    /\ compiledPatterns = <<>>
    /\ out = [p \in Procs |-> NoOut]

srIdle == sr = NoSearch

cliIdle == cli = NoCheck

igIdle == ig = NoIgnoreCall

\* No function has been called directly.
NoCall == [res |-> "", fn |-> "", arg |-> <<>>]

fnIdle == call = NoCall

\* OpenRepository: cache: &Cache{}; no call of the Repository has begun.
gitIdle ==
    /\ headRev = 1
    /\ mu = None
    /\ cacheValid = FALSE
    /\ batchedData = 0
    /\ gitData = <<>>
    /\ gitPc = [p \in Procs |-> <<"", "idle">>]
    /\ gitRet = [p \in Procs |-> <<"none", 0>>]
    /\ gitCalls = 0
    /\ gitFills = 0
    /\ gitTouched = [p \in Procs |-> <<FALSE, FALSE>>]

\* NewFileScanner on one of the trees: the rules are loaded, the cache is empty.
Init ==
    /\ \E sc \in Scenarios : tree = sc.tree /\ gitIgnores = sc.rules
    /\ ScanInit
    /\ lcIdle
    /\ anNone /\ srIdle /\ cliIdle /\ igIdle /\ fnIdle /\ gitIdle

Next ==
    \E p \in Procs :
        \/ CallScanAllFiles(p)
        \/ CallGetCachedFiles(p)
        \/ CallGetCachedFile(p)
        \/ CallFilterCachedFiles(p)
        \/ CallScanFiles(p)
        \/ CallGetFilesByExtension(p)
        \/ CallGetLargeFiles(p)
        \/ ScanAllFiles_Lock(p)
        \/ Visit(p)
        \/ VisitErr(p)
        \/ ScanAllFiles_Return(p)
        \/ RLock(p)
        \/ GetCachedFiles(p)
        \/ GetCachedFile(p)
        \/ FilterCachedFiles(p)
        \/ ScanFiles(p)
        \/ GetFilesByExtension(p)
        \/ GetLargeFiles(p)

Spec == Init /\ [][Next]_vars

\* The line counters on their own.
InitLines ==
    /\ tree = Tree1 /\ gitIgnores = Rules1
    /\ ScanInit
    /\ lcIdle
    /\ anNone /\ srIdle /\ cliIdle /\ igIdle /\ fnIdle /\ gitIdle

NextLines == StreamOpen \/ StreamRead \/ StreamEOF \/ StreamFail \/ StreamClose

SpecLines == InitLines /\ [][NextLines]_vars

\* The cache operations on one tree, with callers that modify what they were
\* handed.
InitCallers ==
    /\ tree = Tree1 /\ gitIgnores = Rules1
    /\ ScanInit
    /\ lcIdle
    /\ anNone /\ srIdle /\ cliIdle /\ igIdle /\ fnIdle /\ gitIdle

NextCallers ==
    \E p \in Procs :
        \/ CallScanAllFiles(p)
        \/ CallGetCachedFiles(p)
        \/ CallGetCachedFile(p)
        \/ CallFilterCachedFiles(p)
        \/ ScanAllFiles_Lock(p)
        \/ Visit(p)
        \/ VisitErr(p)
        \/ ScanAllFiles_Return(p)
        \/ RLock(p)
        \/ GetCachedFiles(p)
        \/ GetCachedFile(p)
        \/ FilterCachedFiles(p)
        \/ CallerWritesRecord(p)
        \/ CallerDeletesKey(p)

SpecCallers == InitCallers /\ [][NextCallers]_vars

\* NewFileScanner and NewSecurityAnalyzer on a repository: the rules are
\* loaded, the patterns are compiled, the cache is empty.
InitSecurity ==
    /\ \E sc \in SecurityScenarios : tree = sc.tree /\ gitIgnores = sc.rules
    /\ ScanInit
    /\ lcIdle
    /\ secCfg \in SecurityConfigs
    /\ compiledPatterns = compilePatterns(secCfg.SecretPatterns)
    /\ out = [p \in Procs |-> NoOut]
    /\ srIdle /\ cliIdle /\ igIdle /\ fnIdle /\ gitIdle

NextSecurity ==
    \E p \in Procs :
        \/ CallScanAllFiles(p)
        \/ ScanAllFiles_Lock(p)
        \/ Visit(p)
        \/ VisitErr(p)
        \/ ScanAllFiles_Return(p)
        \/ RLock(p)
        \/ GetCachedFiles(p)
        \/ ScanFiles(p)
        \/ CallAnalyze(p)
        \/ Analyze(p)

SpecSecurity == InitSecurity /\ [][NextSecurity]_vars

\* The two paths of the secret scan on one repository, under the default
\* configuration.
InitSecretPaths ==
    /\ tree = Tree9 /\ gitIgnores = Rules9
    /\ ScanInit
    /\ lcIdle
    /\ secCfg = DefaultSecurity
    /\ compiledPatterns = compilePatterns(secCfg.SecretPatterns)
    /\ out = [p \in Procs |-> NoOut]
    /\ srIdle /\ cliIdle /\ igIdle /\ fnIdle /\ gitIdle

SpecSecretPaths == InitSecretPaths /\ [][NextSecurity]_vars

\* ScanAllFiles and GetCachedFiles on a working tree that changes between
\* the scans.
InitRescan ==
    /\ \E rels \in SUBSET {RescanFiles[i].rel : i \in 1..Len(RescanFiles)} :
          tree = TreeOf(rels)
    /\ gitIgnores = RescanRules
    /\ ScanInit
    /\ lcIdle
    /\ anNone /\ srIdle /\ cliIdle /\ igIdle /\ fnIdle /\ gitIdle

NextRescan ==
    \/ FileAdded
    \/ FileRemoved
    \/ \E p \in Procs :
          \/ CallScanAllFiles(p)
          \/ CallGetCachedFiles(p)
          \/ ScanAllFiles_Lock(p)
          \/ Visit(p)
          \/ VisitErr(p)
          \/ ScanAllFiles_Return(p)
          \/ RLock(p)
          \/ GetCachedFiles(p)

SpecRescan == InitRescan /\ [][NextRescan]_vars

\* shouldIgnore on its own, after NewFileScanner has loaded a rule list.
InitIgnore ==
    /\ tree = Tree1
    /\ gitIgnores \in IgnoreRuleLists
    /\ ScanInit
    /\ lcIdle
    /\ anNone /\ srIdle /\ cliIdle /\ igIdle /\ fnIdle /\ gitIdle

NextIgnore == ShouldIgnore_Call

SpecIgnore == InitIgnore /\ [][NextIgnore]_vars

\* The check command on its own.
InitCheck ==
    /\ tree = Tree1 /\ gitIgnores = Rules1
    /\ ScanInit
    /\ lcIdle
    /\ anNone /\ srIdle /\ cliIdle /\ igIdle /\ fnIdle /\ gitIdle

NextCheck == runCheck

SpecCheck == InitCheck /\ [][NextCheck]_vars

\* The scanner with callers that keep running: a caller inside an operation
\* takes its next step when it can (the goroutine is scheduled), and a caller
\* waiting in Lock or RLock gets the lock if it is free again and again
\* (sync.RWMutex: a blocked Lock keeps new readers out, and Unlock wakes the
\* readers that wait before the next writer).  Starting a call and a walk
\* error are left to the environment.
InitLive ==
    /\ tree = << D(<<>>), F(<<"m","a","i","n",".","g","o">>, <<>>) >>
    /\ gitIgnores = Rules1
    /\ ScanInit
    /\ lcIdle
    /\ anNone /\ srIdle /\ cliIdle /\ igIdle /\ fnIdle /\ gitIdle

\* The steps of caller p inside an operation.
Step(p) ==
    \/ ScanAllFiles_Lock(p)
    \/ Visit(p)
    \/ VisitErr(p)
    \/ ScanAllFiles_Return(p)
    \/ RLock(p)
    \/ GetCachedFiles(p)
    \/ GetCachedFile(p)
    \/ FilterCachedFiles(p)
    \/ ScanFiles(p)

\* The calls of the five operations and their steps.
NextLive ==
    \E p \in Procs :
        \/ CallScanAllFiles(p)
        \/ CallGetCachedFiles(p)
        \/ CallGetCachedFile(p)
        \/ CallFilterCachedFiles(p)
        \/ CallScanFiles(p)
        \/ Step(p)

Fairness ==
    \A p \in Procs :
        /\ WF_vars(Step(p))
        /\ SF_vars(ScanAllFiles_Lock(p))
        /\ SF_vars(RLock(p))

SpecLive == InitLive /\ [][NextLive]_vars /\ Fairness

\* The two file searches on their own.
InitSeverity ==
    /\ tree = Tree1
    /\ gitIgnores = <<>>
    /\ ScanInit
    /\ lcIdle
    /\ anNone /\ srIdle /\ cliIdle /\ igIdle /\ fnIdle /\ gitIdle

NextSeverity == determineSecretSeverity_Call

SpecSeverity == InitSeverity /\ [][NextSeverity]_vars

InitSuppress ==
    /\ tree = Tree1
    /\ gitIgnores = <<>>
    /\ ScanInit
    /\ lcIdle
    /\ secCfg = AllowedSecretsOfTest
    /\ compiledPatterns = <<>>
    /\ out = [p \in Procs |-> NoOut]
    /\ srIdle /\ cliIdle /\ igIdle /\ fnIdle /\ gitIdle

NextSuppress == processSecretMatch_Call

SpecSuppress == InitSuppress /\ [][NextSuppress]_vars

InitFileSearch ==
    /\ tree = Tree1 /\ gitIgnores = Rules1
    /\ ScanInit
    /\ lcIdle
    /\ anNone /\ srIdle /\ cliIdle /\ igIdle /\ fnIdle /\ gitIdle

NextFileSearch == SearchOpen \/ SearchStreaming \/ SearchBuffered \/ SearchClose

SpecFileSearch == InitFileSearch /\ [][NextFileSearch]_vars

\* Callers of SearchInFiles on a repository.
InitSearch ==
    /\ \E sc \in SecurityScenarios : tree = sc.tree /\ gitIgnores = sc.rules
    /\ ScanInit
    /\ lcIdle
    /\ anNone /\ srIdle /\ cliIdle /\ igIdle /\ fnIdle /\ gitIdle

NextSearch == \E p \in Procs : SearchInFiles_Call(p)

SpecSearch == InitSearch /\ [][NextSearch]_vars

\* SearchInFiles on its own, on the repositories of the search.
InitSearchDirect ==
    /\ \E sc \in SearchScenarios : tree = sc.tree /\ gitIgnores = sc.rules
    /\ ScanInit
    /\ lcIdle
    /\ anNone /\ srIdle /\ cliIdle /\ igIdle /\ fnIdle /\ gitIdle

NextSearchDirect == SearchInFiles_Direct

SpecSearchDirect == InitSearchDirect /\ [][NextSearchDirect]_vars

\* The summary of a report on its own.
InitSummary ==
    /\ tree = Tree1
    /\ gitIgnores = <<>>
    /\ ScanInit
    /\ lcIdle
    /\ anNone /\ srIdle /\ cliIdle /\ igIdle /\ fnIdle /\ gitIdle

NextSummary == calculateSummary_Call

SpecSummary == InitSummary /\ [][NextSummary]_vars

\* Two callers of a Repository, and commits between their calls.
InitGit ==
    /\ tree = Tree1
    /\ gitIgnores = <<>>
    /\ ScanInit
    /\ lcIdle
    /\ anNone /\ srIdle /\ cliIdle /\ igIdle /\ fnIdle /\ gitIdle

NextGit ==
    \/ Commit
    \/ \E p \in Procs :
          \/ CallBatchGitOperations(p)
          \/ CallInvalidateCache(p)
          \/ GitLock(p)
          \/ BatchGitOperations_Check(p)
          \/ BatchGitOperations_HeadFails(p)
          \/ BatchGitOperations_Store(p)
          \/ InvalidateCache(p)

SpecGit == InitGit /\ [][NextGit]_vars

-----------------------------------------------------------------------------
(* Definitions the properties share. *)

GitName == <<".","g","i","t">>
MainGo == <<"m","a","i","n",".","g","o">>
NotesTxt == <<"n","o","t","e","s",".","t","x","t">>
PhotoPng == <<"p","h","o","t","o",".","p","n","g">>

\* The ScanAllFiles calls that returned without error, by their place in hist.
OkScans == {i \in 1..Len(hist) : hist[i].ok}

\* The entry of the tree with a relative path.
EntryOf(rel) == tree[CHOOSE j \in 1..Len(tree) : tree[j].rel = rel]

\* The ignore matcher as the specification words it: some rule matches the
\* full relative path or the base name, or a rule ending in "/" matches one
\* of them with the slash stripped.
IgnoredByRules(path) ==
    \E i \in 1..Len(gitIgnores) :
        LET rule == gitIgnores[i]
            bare == SubSeq(rule, 1, Len(rule) - 1)
        IN  \/ Match(rule, path)
            \/ Match(rule, Base(path))
            \/ /\ rule # <<>>
               /\ rule[Len(rule)] = "/"
               /\ (Match(bare, path) \/ Match(bare, Base(path)))

\* The line count the specification gives a content: its '\n' bytes, plus
\* one when it is not empty and does not end with '\n'.
ExpectedLines(bytes) ==
    Cardinality({i \in 1..Len(bytes) : bytes[i] = NL})
        + (IF Len(bytes) > 0 /\ bytes[Len(bytes)] # NL THEN 1 ELSE 0)

\* (Size, Extension, IsText, LineCount) per key.
Tuples(snap) ==
    [k \in DOMAIN snap |-> <<snap[k].Size, snap[k].Extension, snap[k].IsText,
                             snap[k].LineCount>>]

-----------------------------------------------------------------------------
(* The properties. *)

\* C1: every result a reader returns reflects the initial empty cache or the
\* complete file set of a traversal that ran to its end, also after a
\* traversal that was aborted by a walk error.
C1_ReadersSeeOnlyCompleteScans ==
    LET complete == {EmptyMap} \cup {hist[i].snap : i \in OkScans}
    IN  \A p \in Procs :
          /\ ret[p].k = "copy" => View(ret[p].m) \in complete
          /\ (ret[p].k = "rec" /\ ret[p].exists) =>
                \E c \in complete : \A a \in ret[p].addrs :
                    /\ heap[a].RelativePath \in DOMAIN c
                    /\ c[heap[a].RelativePath] = heap[a]
          /\ ret[p].k = "recs" =>
                \E c \in complete : \E f \in Filters :
                    {heap[a] : a \in ret[p].addrs}
                        = {c[k] : k \in {x \in DOMAIN c : ApplyFilter(f, c[x])}}

\* C2: every value the cache hands out is a copy: whatever a caller does to
\* a map or a record it was handed, every map a traversal built still shows
\* the keys and the records the traversal left in it, to the scanner and to
\* every other caller.
C2_ReturnedValuesAreCopies ==
    \A i \in 1..Len(hist) : View(mapObj[hist[i].id]) = hist[i].snap

\* C3: after a successful ScanAllFiles every regular file that no ignore rule
\* matches and whose path does not contain ".git" has a key in the cache.
C3_EveryEligibleFileIsCached ==
    \A i \in OkScans : \A j \in 1..Len(tree) :
        (/\ ~tree[j].dir
         /\ ~IgnoredByRules(tree[j].rel)
         /\ ~Contains(AbsPath(tree[j]), GitName))
            => tree[j].rel \in DOMAIN hist[i].snap

\* C4: no key of the cache and no entry of a ScanFiles result is a path the
\* ignore matcher accepts or a path that contains ".git".
C4_NoIgnoredEntry ==
    LET Clean(path) == ~IgnoredByRules(path) /\ ~Contains(path, GitName)
    IN  /\ \A k \in DOMAIN mapObj[cacheFiles] : Clean(k)
        /\ \A p \in Procs : \A f \in ret[p].infos : Clean(f.RelativePath)

\* C4 witness: a scan has succeeded on a tree that holds an ignored file,
\* and ScanFiles has returned files of that tree.
C4_Witness ==
    /\ OkScans # {}
    /\ \E j \in 1..Len(tree) : /\ ~tree[j].dir
                               /\ IgnoredByRules(tree[j].rel)
                               /\ ~Contains(AbsPath(tree[j]), GitName)
    /\ \E p \in Procs : ret[p].by = "ScanFiles" /\ ret[p].infos # {}

\* C5: two ScanAllFiles calls that succeed one after the other on the
\* unchanged tree give the same keys and the same (Size, Extension, IsText,
\* LineCount) per key.
C5_ScanIsIdempotent ==
    \A i \in OkScans :
        (i + 1) \in OkScans => Tuples(hist[i].snap) = Tuples(hist[i + 1].snap)

\* C5 witness: two successive successful scans with a non-empty cache.
C5_Witness ==
    \E i \in OkScans : (i + 1) \in OkScans /\ DOMAIN hist[i + 1].snap # {}

\* C6: the streaming line counter returns what countLinesFromBytes returns
\* on the same bytes, for every content and every cut into reads.
C6_StreamingAgreesWithBytes ==
    lcPc = "done" => lcCount = countLinesFromBytes(lcContent)

\* C7: the LineCount of every text file recorded is the number of its '\n'
\* bytes plus one for an unterminated last line; the tree of main.go,
\* notes.txt and photo.png gives 3 entries with 10, 5 and 0 lines.
C7_LineCountOfRecords ==
    /\ \A a \in DOMAIN heap :
          heap[a].IsText =>
              heap[a].LineCount = ExpectedLines(EntryOf(heap[a].RelativePath).bytes)
    /\ \A i \in OkScans :
          tree = Tree1 =>
              /\ DOMAIN hist[i].snap = {MainGo, NotesTxt, PhotoPng}
              /\ hist[i].snap[MainGo].LineCount = 10
              /\ hist[i].snap[NotesTxt].LineCount = 5
              /\ hist[i].snap[PhotoPng].LineCount = 0
              /\ ~hist[i].snap[PhotoPng].IsText

\* C8: a record of a file with a NUL byte in its first FirstBytesSize bytes
\* has IsText false, no Content and LineCount 0; Content is set only for
\* text files of at most maxCacheSize bytes.
C8_BinaryAndCachedContent ==
    \A a \in DOMAIN heap :
        LET f == heap[a]
            bytes == EntryOf(f.RelativePath).bytes
        IN  /\ (\E i \in 1..Min(FirstBytesSize, Len(bytes)) : bytes[i] = NUL)
                  => (~f.IsText /\ f.Content = <<>> /\ f.LineCount = 0)
            /\ f.Content # <<>> => (f.IsText /\ f.Size <= maxCacheSize)

\* C8 witness: a successful scan has recorded a binary file above the cache
\* threshold.
C8_Witness ==
    \E i \in OkScans : \E k \in DOMAIN hist[i].snap :
        LET f == hist[i].snap[k]
        IN  ~f.IsText /\ f.Size > maxCacheSize /\ EntryOf(k).bytes[1] = NUL

\* C9: a file that cannot be opened or read does not abort the traversal:
\* its record is binary with no content and LineCount 0, the walk goes on
\* with the next entry, and a scan with no walk error returns success.
C9_UnreadableFileIsAbsorbed ==
    /\ [](/\ \A a \in DOMAIN heap :
                EntryOf(heap[a].RelativePath).fail # "none" =>
                    (~heap[a].IsText /\ heap[a].Content = <<>> /\ heap[a].LineCount = 0)
          /\ \A i \in 1..Len(hist) : ~hist[i].envErr => hist[i].ok)
    /\ [][\A p \in Procs :
            (/\ pos[p] \in 1..Len(tree)
             /\ ~tree[pos[p]].dir
             /\ tree[pos[p]].fail # "none"
             /\ ~sawErr'[p]
             /\ (pos'[p] # pos[p] \/ werr'[p] # werr[p]))
                => (/\ pos'[p] = pos[p] + 1
                    /\ ~werr'[p]
                    /\ tree[pos[p]].rel \in DOMAIN mapObj'[cacheFiles'])]_vars

\* C10: a walk error stops ScanAllFiles at that entry and makes it return an
\* error and no map; ScanFiles, GetFilesByExtension and GetLargeFiles return
\* that error and no file list.
C10_WalkErrorAbortsAndPropagates ==
    /\ [](/\ \A p \in Procs :
                (stack[p] = <<>> /\ sawErr[p]) =>
                    (/\ ret[p].k = "err"
                     /\ ret[p].infos = {}
                     /\ ret[p].m = EmptyMap
                     /\ ret[p].id = 0)
          /\ \A i \in 1..Len(hist) : hist[i].envErr => ~hist[i].ok)
    /\ [][\A p \in Procs :
            werr[p] => (/\ pos'[p] \in {pos[p], 0}
                        /\ mapObj' = mapObj
                        /\ heap' = heap)]_vars

\* C10 witness: one of the three legacy operations has returned an error
\* after a walk error that left entries in the cache.
C10_Witness ==
    \E p \in Procs :
        /\ stack[p] = <<>>
        /\ sawErr[p]
        /\ ret[p].k = "err"
        /\ ret[p].by \in {"ScanFiles", "GetFilesByExtension", "GetLargeFiles"}
        /\ DOMAIN mapObj[cacheFiles] # {}

-----------------------------------------------------------------------------
(* The properties of the analyzer, the search and the check command. *)

\* The files of the tree that no ignore rule matches and whose path does not
\* contain ".git".
EligibleFiles ==
    {j \in 1..Len(tree) :
        /\ ~tree[j].dir
        /\ ~IgnoredByRules(tree[j].rel)
        /\ ~Contains(AbsPath(tree[j]), GitName)}

\* The findings of a rule for a file in what a caller's Analyze returned.
FindingsOf(p, rule, rel) == {i \in out[p].issues : i.Rule = rule /\ i.File = rel}

\* The eligible .go files with the line  password = "12345678".
SecretGoFiles ==
    {j \in EligibleFiles :
        /\ Ext(tree[j].rel) = <<".","g","o">>
        /\ \E n \in 1..Len(splitLines(tree[j].bytes, <<>>)) :
               splitLines(tree[j].bytes, <<>>)[n] = SecretLine}

\* C11: with the default patterns the line  password = "12345678"  in a
\* .go file gives exactly one secret finding, of severity high, when the
\* file is not a test file, and none in a file named foo_test.go, whether
\* the secret scan ran from the cache or through the fallback.
C11_SecretLineGivesOneHighFinding ==
    \A p \in Procs :
        out[p].k \in {"secrets", "issues"} =>
            \A j \in SecretGoFiles :
                LET fs == FindingsOf(p, "secret-detection", tree[j].rel)
                IN  IF HasSuffix(Base(tree[j].rel), <<"_","t","e","s","t",".","g","o">>)
                    THEN fs = {}
                    ELSE Cardinality(fs) = 1 /\ \A i \in fs : i.Severity = "high"

\* The eligible files at the repository root with the given name.
RootFilesNamed(name) == {j \in EligibleFiles : tree[j].rel = name}

\* The names of the two files of the claim.
EnvName == <<".","e","n","v">>
ServerKeyName == <<"s","e","r","v","e","r",".","k","e","y">>

C15_InvalidPatternIsSkipped ==
    \A p \in Procs :
        /\ (out[p].k = "err" /\ out[p].sus = "") => out[p].walkErr
        /\ (out[p].k = "secrets" /\ out[p].via = "cache") =>
               \A j \in SecretGoFiles :
                   (tree[j].rel \in out[p].files /\ ~isTestFile(tree[j].rel)) =>
                       FindingsOf(p, "secret-detection", tree[j].rel) # {}
        /\ (out[p].k = "secrets" /\ out[p].via = "fallback") =>
               \A j \in SecretGoFiles :
                   ~isTestFile(tree[j].rel) =>
                       FindingsOf(p, "secret-detection", tree[j].rel) # {}

\* C13: SearchInFiles called with a pattern that does not compile returns
\* an error and no match, and has visited no entry of the tree.
C13_InvalidPatternFailsBeforeTheWalk ==
    \A p \in Procs :
        out[p].via = "invalid" =>
            /\ out[p].k = "err"
            /\ out[p].matches = <<>>
            /\ out[p].visited = 0

\* One caller's search with an invalid pattern has failed and another
\* caller's search of the same tree has returned matches.
C13_Witness ==
    \E p, q \in Procs :
        /\ out[p].via = "invalid" /\ out[p].k = "err"
        /\ out[q].via = "valid" /\ out[q].k = "matches" /\ out[q].matches # <<>>
        /\ out[q].visited = Len(tree)

\* C14: on the same content and the same compiled pattern the streaming
\* search and the buffered search return the same sequence of Match records
\* (File, Line, Content, Pattern), and one returns an error only if the other
\* does, whatever the lengths of the lines.
C14_StreamingSearchAgreesWithBuffered ==
    (sr.sDone /\ sr.bDone) =>
        /\ sr.s.matches = sr.b.matches
        /\ sr.s.err = sr.b.err

\* The callers whose ScanAllFiles has reset the cache and has not returned.
Traversing == {p \in Procs : stack[p] # <<>> /\ Top(p).op = "ScanAllFiles" /\ Top(p).st = "walk"}

\* The callers inside the body of a read operation.
Reading == {p \in Procs : stack[p] # <<>> /\ Top(p).op \in Readers /\ Top(p).st = "locked"}

\* C16: the write lock is held by the traversing caller, and by it alone,
\* from the reset of the cache until ScanAllFiles returns; no reader holds the
\* read lock meanwhile and no second traversal is in progress; the body of
\* every read operation runs under the read lock; and every step that
\* changes the cache map or replaces it is a step of the holder of the write
\* lock, taken while no reader holds the read lock.
C16_CacheOwnedByTheTraversal ==
    /\ [](/\ Traversing = (IF writer = None THEN {} ELSE {writer})
          /\ writer # None => readers = {}
          /\ Reading = readers)
    /\ [][(mapObj' # mapObj \/ cacheFiles' # cacheFiles) =>
             /\ writer' \in Traversing'
             /\ writer \in {None, writer'}
             /\ readers = {} /\ readers' = {}]_vars

\* A traversal has inserted a file and holds the write lock while the other
\* caller, a reader or a second ScanAllFiles, waits for the lock.
C16_Witness ==
    \E p, q \in Procs :
        /\ writer = p
        /\ DOMAIN mapObj[cacheFiles] # {}
        /\ stack[q] # <<>>
        /\ Top(q).st = "start"
        /\ Top(q).op \in Readers \cup {"ScanAllFiles"}

\* C17: a ScanAllFiles that returns without error leaves as keys of the
\* cache exactly the eligible files of the tree it walked, whatever keys
\* earlier traversals inserted: a file removed since is absent, a file added
\* since is present.
C17_CacheIsRebuiltFromScratch ==
    [][(Len(hist') > Len(hist) /\ hist'[Len(hist')].ok) =>
          DOMAIN mapObj'[cacheFiles'] = {tree[j].rel : j \in EligibleFiles}]_vars

\* The paths TestFileScanner_ShouldIgnore expects to be ignored, and not.
TestIgnored ==
    { <<"a","p","p",".","l","o","g">>, <<"t","e","m","p",".","t","m","p">>,
      <<"b","u","i","l","d","/">>, <<"b","u","i","l","d">>, <<".","e","n","v">>,
      <<".","D","S","_","S","t","o","r","e">> }

TestKept ==
    { <<"m","a","i","n",".","g","o">>, <<"R","E","A","D","M","E",".","m","d">>,
      <<"s","r","c","/","u","t","i","l",".","p","y">> }

\* C18: shouldIgnore(path) is true exactly when some loaded rule matches the
\* full relative path or its base name, or a rule ending in "/" matches one
\* of them with the slash stripped.  With the rules *.log, *.tmp, build/,
\* node_modules/, .env, .DS_Store it is true for app.log, temp.tmp, build/,
\* build, .env and .DS_Store and false for main.go, README.md and
\* src/util.py.  Matching is case-sensitive (*.log does not match APP.LOG)
\* and a rule that begins with "!" takes nothing back (app.log stays ignored
\* under *.log and !app.log).
C18_ShouldIgnoreMatchesTheRules ==
    ig.called =>
        /\ ig.ignored = IgnoredByRules(ig.path)
        /\ gitIgnores = TestRules =>
               /\ ig.path \in TestIgnored => ig.ignored
               /\ ig.path \in TestKept => ~ig.ignored
        /\ (gitIgnores = << <<"*",".","l","o","g">> >>
               /\ ig.path = <<"A","P","P",".","L","O","G">>) => ~ig.ignored
        /\ (gitIgnores = << <<"*",".","l","o","g">>, <<"!","a","p","p",".","l","o","g">> >>
               /\ ig.path = <<"a","p","p",".","l","o","g">>) => ig.ignored

\* shouldIgnore has answered true for build/ under the rules of the test.
C18_Witness ==
    /\ ig.called
    /\ gitIgnores = TestRules
    /\ ig.path = <<"b","u","i","l","d","/">>
    /\ ig.ignored

\* The order of the severities, lowest first.
SeverityScale == <<"low", "medium", "high", "critical">>

\* The place of a severity in the order.
Place(sev) == CHOOSE i \in 1..Len(SeverityScale) : SeverityScale[i] = sev

\* The issue severity is at or above the threshold; a threshold that is none
\* of the four values counts as low.
AtOrAbove(sev, thr) ==
    /\ sev \in {SeverityScale[i] : i \in 1..Len(SeverityScale)}
    /\ Place(sev) >= (IF thr \in {SeverityScale[i] : i \in 1..Len(SeverityScale)} THEN Place(thr) ELSE 1)

\* C19: the check command exits with a non-zero code because of findings
\* exactly when --fail-on-issues is set and the report holds an issue whose
\* severity is at or above the --severity threshold in the order low <
\* medium < high < critical; a threshold that is not one of the four is
\* treated as low; without --fail-on-issues the code is 0 whatever the
\* findings.
C19_ExitCodeFollowsTheThreshold ==
    cli.pc = "done" =>
        /\ (cli.exit # 0) <=>
               /\ cli.failOnIssues
               /\ \E i \in 1..Len(cli.issues) : AtOrAbove(cli.issues[i], cli.severityThreshold)
        /\ ~cli.failOnIssues => cli.exit = 0

\* With --fail-on-issues and a threshold not among the four values, a
\* report whose only issue is of severity low made the command exit with 1.
C19_Witness ==
    /\ cli.pc = "done"
    /\ cli.failOnIssues
    /\ cli.severityThreshold = "HIGH"
    /\ cli.issues = <<"low">>
    /\ cli.exit = 1

\* C20: the write lock is free again and again, so a caller that holds it
\* releases it, on the success path and on the error path of ScanAllFiles;
\* every caller is outside every operation again and again, so every call
\* that has begun returns and a reader or a scan that waits for the lock gets
\* it; and while a call is under way some caller inside an operation can take
\* a step: ScanAllFiles, ScanFiles, GetCachedFiles, GetCachedFile and
\* FilterCachedFiles do not deadlock.
C20_ScansTerminateAndReleaseTheLock ==
    /\ []<>(writer = None)
    /\ \A p \in Procs : []<>(stack[p] = <<>>)
    /\ []((\E p \in Procs : stack[p] # <<>>) => ENABLED (\E p \in Procs : Step(p)))

\* A traversal has failed and still holds the write lock while the other
\* caller's ScanAllFiles waits for it.
C20_Witness ==
    \E p, q \in Procs :
        /\ writer = p
        /\ werr[p]
        /\ stack[q] # <<>>
        /\ Top(q).op = "ScanAllFiles"
        /\ Top(q).st = "start"

-----------------------------------------------------------------------------
(* The records of the cache are never updated. *)

\* The addresses a map points to.
AddrsOf(m) == {m[k] : k \in DOMAIN m}

\* C21: a record, once made and inserted, keeps every field through every
\* step of every scanner operation; a traversal that begins makes a new,
\* empty map and leaves the map it replaces as it was; every other map stays
\* as it is, and the records a traversal inserts are new ones that no
\* earlier map points to.
C21_RecordsAreNeverUpdated ==
    [][ /\ \A a \in DOMAIN heap : a \in DOMAIN heap' /\ heap'[a] = heap[a]
        /\ \A m \in DOMAIN mapObj \ {cacheFiles'} :
              m \in DOMAIN mapObj' /\ mapObj'[m] = mapObj[m]
        /\ (writer = None /\ writer' # None) =>
              /\ cacheFiles' \notin DOMAIN mapObj
              /\ mapObj'[cacheFiles'] = EmptyMap
        /\ \A a \in DOMAIN heap' \ DOMAIN heap :
              \A m \in DOMAIN mapObj' \ {cacheFiles'} : a \notin AddrsOf(mapObj'[m])
      ]_vars

\* A caller holds the map of a traversal, with records in it, and a later
\* traversal has run to its end and filled its own map.
C21_Witness ==
    \E p \in Procs :
        /\ ret[p].k = "map"
        /\ ret[p].id # cacheFiles
        /\ mapObj[ret[p].id] # EmptyMap
        /\ mapObj[cacheFiles] # EmptyMap
        /\ writer = None

-----------------------------------------------------------------------------
(* The severity of a secret. *)

\* The words that make a secret of high risk when a value is assigned to
\* them, and the words of medium risk.
HighRiskWords ==
    { <<"p","r","i","v","a","t","e","_","k","e","y">>, <<"p","r","i","v","a","t","e"," ","k","e","y">>, <<"s","e","c","r","e","t","_","k","e","y">>, <<"s","e","c","r","e","t"," ","k","e","y">>, <<"p","a","s","s","w","o","r","d">>, <<"t","o","k","e","n">> }

MediumRiskWords ==
    { <<"a","p","i","_","k","e","y">>, <<"a","p","i"," ","k","e","y">>, <<"a","c","c","e","s","s","_","k","e","y">>, <<"a","c","c","e","s","s"," ","k","e","y">>, <<"a","p","i","k","e","y">> }

AssignmentOperators == { <<":">>, <<"=">>, <<" ",":">>, <<" ","=">> }

\* The classification of a matched text by its words, in small letters.
SeverityByWords(content) ==
    IF \E w \in HighRiskWords, op \in AssignmentOperators :
           Contains(LowerBytes(content), B(w \o op))
    THEN "high"
    ELSE IF \E w \in MediumRiskWords : Contains(LowerBytes(content), B(w))
         THEN "medium"
         ELSE "low"

\* C22: determineSecretSeverity gives every matched text the severity of
\* its words: high for a word of the private_key, password, secret_key or
\* token family followed by ':' or '=' with or without a space before it,
\* otherwise medium for a word of the api_key or access_key family,
\* otherwise low.
C22_SeverityFollowsTheWords ==
    call.fn = "determineSecretSeverity" => call.res = SeverityByWords(call.arg)

-----------------------------------------------------------------------------
(* The suppression of a secret match. *)

\* The conventional names of test directories.
TestDirectoryNames ==
    { <<"t","e","s","t">>,
      <<"t","e","s","t","s">>,
      <<"t","e","s","t","i","n","g">>,
      <<"_","_","t","e","s","t","s","_","_">>,
      <<"s","p","e","c">>,
      <<"s","p","e","c","s">>,
      <<"t","e","s","t","d","a","t","a">>,
      <<"t","e","s","t","-","d","a","t","a">>,
      <<"f","i","x","t","u","r","e","s">>,
      <<"m","o","c","k","s">>,
      <<"m","o","c","k">> }

\* A test file by its name: the base name ends with _test.go or starts with
\* test_, or a directory of the path has a conventional name.
TestFileByName(file) ==
    \/ HasSuffix(ToLower(Base(file)), <<"_","t","e","s","t",".","g","o">>)
    \/ HasPrefix(ToLower(Base(file)), <<"t","e","s","t","_">>)
    \/ Parts(ToLower(Dir(file))) \cap TestDirectoryNames # {}

\* The source files of the analyzer.
AnalyzerSources ==
    { <<"i","n","t","e","r","n","a","l","/","a","n","a","l","y","z","e","r","/","s","e","c","u","r","i","t","y",".","g","o">>,
      <<"i","n","t","e","r","n","a","l","/","a","n","a","l","y","z","e","r","/","s","e","c","u","r","i","t","y","_","t","e","s","t",".","g","o">> }

\* The matched text holds an allowed secret, in any case of its letters.
HoldsAllowedSecret(content) ==
    \E i \in 1..Len(secCfg.AllowedSecrets) :
        Contains(LowerBytes(content), LowerBytes(secCfg.AllowedSecrets[i]))

\* C23: a secret match is suppressed exactly when its file is a test file,
\* or the analyzer's own source, or its text holds an allowed secret; a
\* match in any other file, one of a user with a similar name included, is
\* reported.
C23_SuppressedExactlyWhenExempt ==
    call.fn = "processSecretMatch" =>
        (call.res = "nil" <=>
            \/ TestFileByName(call.arg[1])
            \/ call.arg[1] \in AnalyzerSources
            \/ HoldsAllowedSecret(call.arg[2]))

-----------------------------------------------------------------------------
(* The properties of SearchInFiles. *)

\* The extension of a file is in the list, whatever the case of the letters;
\* the empty list admits every file.
ExtensionAllowed(rel, exts) ==
    exts = <<>> \/ \E i \in 1..Len(exts) : ToLower(Ext(rel)) = ToLower(exts[i])

\* No NUL byte among the first bytes of the file.
StartsAsText(bytes) ==
    \A i \in 1..Len(bytes) : i <= FirstBytesSize => bytes[i] # NUL

\* The files of the tree that pass the three filters of a search.
SearchableFiles(exts) ==
    {j \in 1..Len(tree) :
        /\ ~tree[j].dir
        /\ ~IgnoredByRules(tree[j].rel)
        /\ ExtensionAllowed(tree[j].rel, exts)
        /\ StartsAsText(tree[j].bytes)}

\* The files of the matches a search returned.
MatchedFiles == {call.res.matches[n].File : n \in 1..Len(call.res.matches)}

\* C24: every match SearchInFiles returns is in a file that no ignore rule
\* matches, whose extension is in the list of the call whatever its case (or
\* the list is empty) and that has no NUL byte among its first bytes: never
\* in a binary file, an ignored file or a file of another extension.
C24_MatchesOnlyFromFilteredFiles ==
    call.fn = "SearchInFiles" =>
        MatchedFiles \subseteq {tree[j].rel : j \in SearchableFiles(call.arg[2])}

\* A search for the password line in .Go and .mod files has returned the
\* matches of A.GO, f.go and n.go alone, although a binary .go file, an
\* ignored log file and a text file hold the line too.
C24_Witness ==
    /\ call.fn = "SearchInFiles"
    /\ tree = Tree7
    /\ call.arg[2] = << <<".","G","o">>, <<".","m","o","d">> >>
    /\ ~call.res.err
    /\ MatchedFiles = {<<"A",".","G","O">>, <<"f",".","g","o">>, <<"n",".","g","o">>}

\* The number of '\n' bytes among the first i bytes.
NewlinesUpTo(bytes, i) == Cardinality({k \in 1..i : bytes[k] = NL})

\* The place of the n-th '\n' of a content, 0 for n = 0 and one past the
\* end when the content has fewer.
NewlineAt(bytes, n) ==
    IF n = 0 THEN 0
    ELSE IF NewlinesUpTo(bytes, Len(bytes)) < n THEN Len(bytes) + 1
    ELSE CHOOSE i \in 1..Len(bytes) : bytes[i] = NL /\ NewlinesUpTo(bytes, i) = n

\* The text of line n of a content in read order: the bytes between the
\* '\n' before it and the '\n' that ends it, or the end of the content.
TextOfLine(bytes, n) ==
    SubSeq(bytes, NewlineAt(bytes, n - 1) + 1, NewlineAt(bytes, n) - 1)

\* The number of lines of a content in read order.
LinesIn(bytes) ==
    NewlinesUpTo(bytes, Len(bytes))
        + (IF bytes # <<>> /\ bytes[Len(bytes)] # NL THEN 1 ELSE 0)

\* C25: every match SearchInFiles returns carries the path of a file of the
\* tree relative to the root, the pattern of the call, a line number counted
\* from 1 in read order and the full text of that line, under the buffered
\* and under the streaming strategy; the matches of one file come in
\* increasing line order.
C25_MatchCarriesPathLineAndText ==
    call.fn = "SearchInFiles" =>
        LET ms == call.res.matches
        IN  /\ \A n \in 1..Len(ms) :
                   /\ ms[n].Pattern = call.arg[1]
                   /\ \E j \in 1..Len(tree) :
                         /\ ~tree[j].dir
                         /\ tree[j].rel = ms[n].File
                         /\ ms[n].Line \in 1..LinesIn(tree[j].bytes)
                         /\ ms[n].Content = TextOfLine(tree[j].bytes, ms[n].Line)
            /\ \A a, b \in 1..Len(ms) :
                   (a < b /\ ms[a].File = ms[b].File) => ms[a].Line < ms[b].Line

\* A search of every file for the password line has returned, in walk
\* order, the third and the fourth line of A.GO (buffered), the line of
\* d/e.txt, the second line of f.go (streaming) and the second line of n.go.
C25_Witness ==
    /\ call.fn = "SearchInFiles"
    /\ tree = Tree7
    /\ call.arg[2] = <<>>
    /\ ~call.res.err
    /\ [n \in 1..Len(call.res.matches) |->
           <<call.res.matches[n].File, call.res.matches[n].Line>>]
         = << <<<<"A",".","G","O">>, 3>>, <<<<"A",".","G","O">>, 4>>, <<<<"d","/","e",".","t","x","t">>, 1>>, <<<<"f",".","g","o">>, 2>>, <<<<"n",".","g","o">>, 2>> >>
    /\ \A n \in 1..Len(call.res.matches) : call.res.matches[n].Content \in {SecretLine, <<NUL>> \o SecretLine}

\* C26: SearchInFiles fails only for a pattern that does not compile or for
\* an error the walk is handed: a file that cannot be opened, stat-ed or read
\* to its end gives no match and the search goes on and returns the matches
\* of the other files.
C26_OnlyPatternAndWalkErrorsFail ==
    call.fn = "SearchInFiles" =>
        (call.res.err => (Compile(call.arg[1]).err \/ call.arg[3] # 0))

-----------------------------------------------------------------------------
(* The health score. *)

\* The score of the claim: 100 less 50 for each critical issue, 15 for each
\* high, 8 for each medium and 3 for each low one, and never below 0.
ScoreByWeights(n) ==
    LET raw == 100 - 50 * n["critical"] - 15 * n["high"] - 8 * n["medium"] - 3 * n["low"]
    IN  IF raw > 0 THEN raw ELSE 0

\* C27: the score of the summary of a report is max(0, 100 - 50 critical -
\* 15 high - 8 medium - 3 low), a number of 0..100, and its grade is A from
\* 90, B from 80, C from 70, D from 60 and F below.
C27_ScoreAndGrade ==
    call.fn = "calculateSummary" =>
        /\ call.res.Score = ScoreByWeights(call.arg)
        /\ call.res.Score \in 0..100
        /\ call.res.Grade = (IF call.res.Score >= 90 THEN "A"
                             ELSE IF call.res.Score >= 80 THEN "B"
                             ELSE IF call.res.Score >= 70 THEN "C"
                             ELSE IF call.res.Score >= 60 THEN "D"
                             ELSE "F")

-----------------------------------------------------------------------------
(* The legacy operations after an aborted traversal. *)

\* What a legacy operation makes of a complete file set: every file of it,
\* the files of the wanted extensions, or the files of a size or more.
LegacyResults(c, by) ==
    LET all == {ToFileInfo(c[k]) : k \in DOMAIN c}
    IN  CASE by = "ScanFiles" -> {all}
          [] by = "GetFilesByExtension" ->
                {{f \in all : WantedExt(f.Extension, x)} : x \in ExtArgs}
          [] by = "GetLargeFiles" ->
                {{f \in all : f.Size >= n} : n \in MinSizes}
          [] OTHER -> {}

\* C28: what ScanFiles, GetFilesByExtension or GetLargeFiles returns without
\* an error is made of the complete file set of a traversal that ran to its
\* end, never of the files a traversal had inserted before a walk error
\* aborted it.
C28_LegacyResultsAreComplete ==
    \A p \in Procs :
        (ret[p].k = "infos") =>
            \E i \in OkScans : ret[p].infos \in LegacyResults(hist[i].snap, ret[p].by)

-----------------------------------------------------------------------------
(* The two paths of the secret scan. *)

\* The secret findings among the issues of a caller.
SecretFindings(p) == {i \in out[p].issues : i.Rule = "secret-detection"}

\* How many secret findings of a caller have the file, the line and the
\* severity of a finding.
TimesFound(p, i) ==
    Cardinality({x \in SecretFindings(p) :
                    x.File = i.File /\ x.Line = i.Line /\ x.Severity = i.Severity})

\* The secret scan of caller p ran from a cache that a traversal which ran
\* to its end had filled.
ScannedCompleteCache(p) ==
    /\ out[p].k = "secrets"
    /\ out[p].via = "cache"
    /\ \E i \in OkScans : DOMAIN hist[i].snap = out[p].files

\* The secret scan of caller q ran through SearchInFiles and returned.
ScannedThroughFallback(q) ==
    /\ out[q].k \in {"secrets", "issues"}
    /\ out[q].via = "fallback"

\* C29: on the same repository and configuration the secret scan from the
\* filled cache and the secret scan through the fallback report the same
\* findings: each file, line and severity the same number of times.
C29_CacheAndFallbackAgree ==
    \A p, q \in Procs :
        (ScannedCompleteCache(p) /\ ScannedThroughFallback(q)) =>
            \A i \in SecretFindings(p) \cup SecretFindings(q) :
                TimesFound(p, i) = TimesFound(q, i)

-----------------------------------------------------------------------------
(* The cache of the batched git data. *)

\* The cache holds valid batched data.
GitCacheValid == cacheValid /\ batchedData # 0

\* The call of BatchGitOperations of caller p returns in this step.
BatchReturns(p) == gitPc[p][1] = "BatchGitOperations" /\ gitPc'[p][2] = "idle"

\* C30: under every interleaving of the callers the batched data are stored
\* at most once between two invalidations.  The repository is read only
\* while the cache is invalid; a call that finds the cache valid returns the
\* cached data, which nobody changes, without reading the repository; a call
\* that finds it invalid, the first one after InvalidateCache included,
\* reads the repository and, if that succeeds, stores and returns new data
\* read at the current revision; a call that fails leaves the cache invalid
\* and without data.  Only InvalidateCache makes a valid cache invalid.
C30_BatchedDataReadOncePerInvalidation ==
    /\ [](gitFills <= 1)
    /\ [][/\ \A id \in DOMAIN gitData : id \in DOMAIN gitData' /\ gitData'[id] = gitData[id]
           /\ (GitCacheValid /\ <<cacheValid', batchedData'>> # <<cacheValid, batchedData>>) =>
                  /\ \E p \in Procs : gitPc[p] = <<"InvalidateCache", "locked">>
                                       /\ gitPc'[p][2] = "idle"
                  /\ cacheValid' = FALSE /\ batchedData' = 0
           /\ \A p \in Procs :
                  /\ (gitTouched'[p][2] /\ ~gitTouched[p][2]) => ~GitCacheValid
                  /\ BatchReturns(p) =>
                        IF gitTouched'[p][1]
                        THEN /\ ~gitTouched'[p][2]
                             /\ gitRet'[p] = <<"data", batchedData>>
                             /\ batchedData' = batchedData /\ cacheValid'
                        ELSE /\ gitTouched'[p][2]
                             /\ \/ /\ gitRet'[p] = <<"data", batchedData'>>
                                   /\ cacheValid'
                                   /\ batchedData' \notin DOMAIN gitData \cup {0}
                                   /\ gitData'[batchedData'] = headRev
                                \/ /\ gitRet'[p] = <<"err", 0>>
                                   /\ cacheValid' = FALSE /\ batchedData' = 0
          ]_vars

\* After a commit and an InvalidateCache the data were read again at the new
\* revision, and a later call has returned these second data from the cache
\* without reading the repository.
C30_Witness ==
    \E p \in Procs :
        /\ gitRet[p] = <<"data", 2>>
        /\ gitTouched[p] = <<TRUE, FALSE>>
        /\ gitData = <<1, 2>>
        /\ batchedData = 2 /\ cacheValid
        /\ gitFills = 1
        /\ mu = None

=============================================================================
